---- MODULE Spec2Model ----
(***************************************************************************)
(* Model of the filter / aggregate / index pipeline of the mental-health   *)
(* dashboard (src/app.py, src/modules/filters.py, src/modules/analysis.py, *)
(* src/modules/utils.py).                                                  *)
(*                                                                         *)
(* A DataFrame is a record [columns, rows]: columns is the ordered list of *)
(* column names, rows the list of records, each a function from the column *)
(* names to cell values.  A missing categorical cell is the string NaN.    *)
(* Numbers that pandas keeps as floats (rates, scores) are kept in fixed   *)
(* point, in units of 1/Scale, where Scale is a multiple of every possible *)
(* group size, so that every mean of a 0/1 column is exact.                *)
(***************************************************************************)
EXTENDS Integers, Sequences, FiniteSets, TLC

VARIABLES
    phase,      \* which pipeline stage this behaviour exercises
    df,         \* the DataFrame handed to the stage under analysis
    ncalls,     \* number of create_country_mental_health_index calls made on df
    index,      \* the DataFrame returned by the latest such call
    filters,    \* the sidebar selections handed to the filter
    survey,     \* the survey the frame comes from: filter_data's dataset_type
    filtered,   \* what the filter returned (or raised) on df
    refiltered, \* what the filter returned when applied again to filtered
    ages,       \* the age column handed to the bucketing functions
    app_groups, \* get_age_group applied to each age (app.py)
    binned,     \* what Utils.bin_age_groups returned (or raised) on the ages
    cut_groups, \* what the pd.cut of the Deep Dive page returned (or raised) on the ages
    looser,     \* selections that constrain no more than filters does
    loosened,   \* what the filter returned (or raised) on df under looser
    rates,      \* what calculate_treatment_rates_by_attribute returned on df
    comp_stats, \* what calculate_compensation_stats_by_attribute returned on df
    group_stats, \* what Analysis.compare_groups returned on df
    mh_insights, \* what generate_mental_health_insights returned on df
    comparison, \* what generate_comparison_insights returned on df
    call,       \* the insight generator a page calls, with its arguments
    insights,   \* the list of insights that call returned
    formatted,  \* what format_insights rendered of that list
    page,       \* the page whose script runs on df with the selections filters
    overview,   \* the metrics create_dashboard_overview displayed
    charts      \* what the sections of the page displayed (or raised)

tightenVars == <<looser, loosened>>

aggVars == <<rates, comp_stats, group_stats, mh_insights, comparison>>

insightVars == <<call, insights, formatted>>

pageVars == <<page, overview, charts>>

stageVars == <<tightenVars, aggVars, insightVars, pageVars>>

vars == <<phase, df, ncalls, index, filters, survey, filtered, refiltered,
          ages, app_groups, binned, cut_groups, stageVars>>

(***************************************************************************)
(* Bounds of the model.                                                    *)
(***************************************************************************)
MaxRows == 2        \* records per DataFrame of the index stage
MaxRecords == 2     \* records per DataFrame of the filter stage
AgeMargin == 2      \* how far the ages tried go below 0 and above the top bin
MaxCalls == 2       \* calls of the index builder on one DataFrame
MaxPoints == 3      \* records per DataFrame handed to the insight generators
MaxGroups == 6      \* categories of the frames made of one record per category
RngMod == 2         \* distinct values one draw of np.random.uniform can take

(***************************************************************************)
(* Generic helpers.                                                        *)
(***************************************************************************)
NaN == "NaN"
NoFrame == [columns |-> <<>>, rows |-> <<>>]

RECURSIVE Fact(_)
Fact(n) == IF n <= 1 THEN 1 ELSE n * Fact(n - 1)

Scale == Fact(MaxRows)

SeqsUpTo(S, n) == UNION {[1..k -> S] : k \in 0..n}

Range(s) == {s[i] : i \in DOMAIN s}

HasCol(frame, c) == c \in Range(frame.columns)

HasAll(frame, cs) == \A i \in DOMAIN cs : HasCol(frame, cs[i])

Restrict(r, S) == [c \in S |-> r[c]]

InOrder(order, S) == SelectSeq(order, LAMBDA c : c \in S)

MkFrame(order, S, rows) ==
    [columns |-> InOrder(order, S), rows |-> [i \in DOMAIN rows |-> Restrict(rows[i], S)]]

Min(a, b) == IF a < b THEN a ELSE b
Max(a, b) == IF a > b THEN a ELSE b

(***************************************************************************)
(* Analysis.create_country_mental_health_index                             *)
(***************************************************************************)
required_cols == <<"Country", "treatment", "work_interfere", "mental_health_consequence">>

countries == <<"United States", "United Kingdom", "Canada", "Germany", "Australia",
               "India", "France", "Netherlands", "Brazil", "Sweden">>

TreatmentWeight == 10
InterfereWeight == -5
ConsequenceWeight == -5
ScoreWeight == 10
ClipLo == 0
ClipHi == 10
IndexLo == 3
IndexHi == 8
ScoreLo == 2
ScoreHi == 9

\* the values of the Country column in groupby's (sorted) key order
CountryOrder == <<"Germany", "United States">>

\* Series.clip with the upper bound forgotten
Clip_LowerOnly(x, lo, hi) == Max(x, lo * Scale)

\* Series.clip(lower, upper), bounds given in index points
Clip(x, lo, hi) == Min(Max(x, lo * Scale), hi * Scale)

\* (x == v).mean() * weight or x.isin(vals).mean() * weight over the column
\* col of one group: the mean of a 0/1 mask is (number of TRUE) / (group
\* size), exact in units of 1/Scale
MeanTimes(group, col, vals, weight) ==
    ((Len(SelectSeq(group, LAMBDA r : r[col] \in vals)) * Scale) \div Len(group)) * weight

\* a groupby that keeps the missing key as a group of its own
GroupKeys_KeepMissing(frame) ==
    SelectSeq(CountryOrder \o <<NaN>>,
              LAMBDA c : \E i \in DOMAIN frame.rows : frame.rows[i]["Country"] = c)

\* df.groupby('Country'): the groups are the distinct non-missing keys, sorted
GroupKeys(frame) ==
    SelectSeq(CountryOrder, LAMBDA c : \E i \in DOMAIN frame.rows : frame.rows[i]["Country"] = c)

Group(frame, c) == SelectSeq(frame.rows, LAMBDA r : r["Country"] = c)

\* np.random.uniform(lo, hi, n): n draws from a generator whose state (seed)
\* at the time of the call is not known to the program
Draw(seed, k) == (seed + k) % RngMod

Uniform(lo, hi, n, seed, offset) ==
    [k \in 1..n |-> lo * Scale + (((hi - lo) * Scale * Draw(seed, offset + k)) \div RngMod)]

\* the synthetic frame returned when a required column is absent
SyntheticIndex(seed) ==
    LET n == Len(countries)
        mhi == Uniform(IndexLo, IndexHi, n, seed, 0)
        sup == Uniform(ScoreLo, ScoreHi, n, seed, n)
        awa == Uniform(ScoreLo, ScoreHi, n, seed, 2 * n)
    IN [columns |-> <<"Country", "Mental Health Index", "Support Score", "Awareness Score">>,
        rows |-> [k \in 1..n |->
                    [Country |-> countries[k],
                     MentalHealthIndex |-> mhi[k],
                     SupportScore |-> sup[k],
                     AwarenessScore |-> awa[k]]]]

\* the three component aggregations of one country group
TreatmentComponent(group) ==
    MeanTimes(group, "treatment", {"Yes"}, TreatmentWeight)

InterfereComponent(group) ==
    MeanTimes(group, "work_interfere", {"Often", "Sometimes"}, InterfereWeight)

ConsequenceComponent(group) ==
    MeanTimes(group, "mental_health_consequence", {"Yes"}, ConsequenceWeight)

\* country_stats['treatment'] - country_stats['work_interfere']
\*                            - country_stats['mental_health_consequence']
Combine(t, w, c) == t - w - c

\* support scores that are always the synthetic ones
SupportScores_AlwaysRandom(frame, keys, seed) ==
    LET n == Len(keys)
        sup == Uniform(ScoreLo, ScoreHi, n, seed, 0)
        awa == Uniform(ScoreLo, ScoreHi, n, seed, n)
    IN [k \in DOMAIN keys |-> [sup |-> sup[k], awa |-> awa[k]]]

\* Support Score and Awareness Score of the keys, in key order
SupportScores(frame, keys, seed) ==
    IF HasCol(frame, "benefits") /\ HasCol(frame, "care_options")
    THEN [k \in DOMAIN keys |->
            [sup |-> MeanTimes(Group(frame, keys[k]), "benefits", {"Yes"}, ScoreWeight),
             awa |-> MeanTimes(Group(frame, keys[k]), "care_options", {"Yes"}, ScoreWeight)]]
    ELSE LET n == Len(keys)
             sup == Uniform(ScoreLo, ScoreHi, n, seed, 0)
             awa == Uniform(ScoreLo, ScoreHi, n, seed, n)
         IN [k \in DOMAIN keys |-> [sup |-> sup[k], awa |-> awa[k]]]

ComputedIndex(frame, seed) ==
    LET keys == GroupKeys(frame)
        scores == SupportScores(frame, keys, seed)
    IN [columns |-> <<"Country", "treatment", "work_interfere", "mental_health_consequence",
                      "Mental Health Index", "Support Score", "Awareness Score">>,
        rows |-> [k \in DOMAIN keys |->
                    LET g == Group(frame, keys[k])
                        t == TreatmentComponent(g)
                        w == InterfereComponent(g)
                        c == ConsequenceComponent(g)
                    IN [Country |-> keys[k],
                        treatment |-> t,
                        work_interfere |-> w,
                        mental_health_consequence |-> c,
                        MentalHealthIndex |-> Clip(Combine(t, w, c), ClipLo, ClipHi),
                        SupportScore |-> scores[k].sup,
                        AwarenessScore |-> scores[k].awa]]]

create_country_mental_health_index(frame, seed) ==
    IF ~HasAll(frame, required_cols)
    THEN SyntheticIndex(seed)
    ELSE ComputedIndex(frame, seed)

(***************************************************************************)
(* Cells of numeric columns (age): a number, a missing value, or a text    *)
(* that is not a number.  Outcomes of a call: what it returns, or the      *)
(* exception it raises.                                                    *)
(***************************************************************************)
Num(n) == [num |-> n]
NaNum == [nan |-> TRUE]
Text(s) == [text |-> s]
IsNum(cell) == "num" \in DOMAIN cell

Raised(e) == [error |-> e]
IsFrame(x) == "rows" \in DOMAIN x
NotCalled == [pending |-> TRUE]

\* df[mask]: the rows whose mask is TRUE, in order, columns unchanged
Where(frame, mask) ==
    LET kept == SelectSeq([i \in DOMAIN frame.rows |-> i], LAMBDA i : mask[i])
    IN [columns |-> frame.columns, rows |-> [k \in DOMAIN kept |-> frame.rows[kept[k]]]]

\* an assignment that adds the column even when the frame already has it
AddColumn_Append(frame, name, values) ==
    [columns |-> Append(frame.columns, name),
     rows |-> [i \in DOMAIN frame.rows |->
                 [c \in (DOMAIN frame.rows[i]) \cup {name} |->
                     IF c = name THEN values[i] ELSE frame.rows[i][c]]]]

\* df[name] = values: overwrites the column when present, appends it otherwise
AddColumn(frame, name, values) ==
    [columns |-> IF HasCol(frame, name) THEN frame.columns ELSE Append(frame.columns, name),
     rows |-> [i \in DOMAIN frame.rows |->
                 [c \in (DOMAIN frame.rows[i]) \cup {name} |->
                     IF c = name THEN values[i] ELSE frame.rows[i][c]]]]

(***************************************************************************)
(* app.py: get_age_group and filter_data                                   *)
(***************************************************************************)
age_groups == <<"Under 25", "25-34", "35-44", "45-54", "55+">>

\* returns [label |-> ...], or raises ValueError on int() of a non-number
get_age_group(age) ==
    IF age = NaNum THEN [label |-> "Unknown"]
    ELSE IF ~IsNum(age) THEN Raised("ValueError")
    ELSE IF age.num < 25 THEN [label |-> "Under 25"]
    ELSE IF age.num < 35 THEN [label |-> "25-34"]
    ELSE IF age.num < 45 THEN [label |-> "35-44"]
    ELSE IF age.num < 55 THEN [label |-> "45-54"]
    ELSE [label |-> "55+"]

\* a sidebar selection: None, or a list of selected options
None == [none |-> TRUE]
List(s) == [list |-> s]

\* a selection that counts as a constraint as soon as it is not None
Truthy_NotNone(selection) == selection # None

\* `filters[k] and len(filters[k]) > 0`
Truthy(selection) == selection # None /\ Len(selection.list) > 0

\* an isin that keeps the values outside the list
Isin_Negated(cell, selection) == cell \notin Range(selection.list)

\* an isin that lets the missing value through
Isin_OrMissing(cell, selection) == cell \in Range(selection.list) \/ cell = NaN

\* Series.isin(list) for one cell; the lists hold no missing value
Isin(cell, selection) == cell \in Range(selection.list)

\* filtered_df[filtered_df[col].isin(filters[key])]; indexing an absent
\* column raises KeyError
IsinStep(frame, col, selection) ==
    IF ~IsFrame(frame) THEN frame
    ELSE IF ~Truthy(selection) THEN frame
    ELSE IF ~HasCol(frame, col) THEN Raised("KeyError")
    ELSE Where(frame, [i \in DOMAIN frame.rows |-> Isin(frame.rows[i][col], selection)])

\* the age block: derive age_group, then filter on it
AgeGroupStep(frame, selection) ==
    IF ~IsFrame(frame) THEN frame
    ELSE IF ~HasCol(frame, "age") THEN frame
    ELSE LET groups == [i \in DOMAIN frame.rows |-> get_age_group(frame.rows[i]["age"])]
         IN IF \E i \in DOMAIN groups : groups[i] = Raised("ValueError")
            THEN Raised("ValueError")
            ELSE LET derived == AddColumn(frame, "age_group",
                                          [i \in DOMAIN groups |-> groups[i].label])
                 IN IF Truthy(selection)
                    THEN Where(derived, [i \in DOMAIN derived.rows |->
                                           Isin(derived.rows[i]["age_group"], selection)])
                    ELSE derived

\* a copy that is the caller's own object
Copy_Alias(ref) == ref

\* df.copy(): a new object with the content of the caller's
Copy(ref) == [id |-> "copy", frame |-> ref.frame]

\* the caller's frame once filter_data has returned (or raised).  The one
\* statement that writes in place is the age_group assignment; it writes to
\* the object filtered_df names then, which is the caller's only when
\* neither the copy nor the country indexing has replaced it
filter_data_input(frame, f, dataset_type) ==
    LET filtered_df == Copy([id |-> "input", frame |-> frame])
        groups == [i \in DOMAIN frame.rows |-> get_age_group(frame.rows[i]["age"])]
    IN IF /\ filtered_df.id = "input"
          /\ ~Truthy(f["countries"])
          /\ HasCol(frame, "age")
          /\ \A i \in DOMAIN groups : groups[i] # Raised("ValueError")
       THEN AddColumn(frame, "age_group", [i \in DOMAIN groups |-> groups[i].label])
       ELSE frame

filter_data(frame, f, dataset_type) ==
    LET byCountry == IsinStep(frame, "country", f["countries"])
        byAge == AgeGroupStep(byCountry, f["age_groups"])
        byGender == IF dataset_type = "mental_health"
                    THEN IsinStep(byAge, "gender", f["genders"])
                    ELSE byAge
        byEmployment == IF dataset_type = "stackoverflow"
                        THEN IsinStep(byGender, "employment", f["employment"])
                        ELSE byGender
        byRemote == IF dataset_type = "stackoverflow"
                    THEN IsinStep(byEmployment, "remotework", f["remote"])
                    ELSE byEmployment
    IN byRemote

(***************************************************************************)
(* modules/filters.py: Filters.apply_filters                               *)
(***************************************************************************)
\* a range test whose lower bound is exclusive
InAgeRange_LowerExclusive(cell, range) ==
    IsNum(cell) /\ cell.num > range[1] /\ cell.num <= range[2]

\* a range test whose upper bound is exclusive
InAgeRange_UpperExclusive(cell, range) ==
    IsNum(cell) /\ cell.num >= range[1] /\ cell.num < range[2]

\* (Age >= min_age) & (Age <= max_age); a comparison with NaN is False
InAgeRange(cell, range) ==
    IsNum(cell) /\ cell.num >= range[1] /\ cell.num <= range[2]

\* `key in filters and filters[key] != 'All' and col in filtered_df.columns`
EqualsStep(frame, f, key, col) ==
    IF key \in DOMAIN f /\ f[key] # "All" /\ HasCol(frame, col)
    THEN Where(frame, [i \in DOMAIN frame.rows |-> frame.rows[i][col] = f[key]])
    ELSE frame

AgeRangeStep(frame, f) ==
    IF "age_range" \in DOMAIN f /\ HasCol(frame, "Age")
    THEN Where(frame, [i \in DOMAIN frame.rows |->
                         InAgeRange(frame.rows[i]["Age"], f["age_range"])])
    ELSE frame

apply_filters(frame, f) ==
    LET byCountry == EqualsStep(frame, f, "country", "Country")
        byAge == AgeRangeStep(byCountry, f)
        byGender == EqualsStep(byAge, f, "gender", "Gender")
        byOrgSize == EqualsStep(byGender, f, "org_size", "no_employees")
        byRemote == EqualsStep(byOrgSize, f, "remote_work", "remote_work")
        byTech == EqualsStep(byRemote, f, "tech_company", "tech_company")
        byEmployment == EqualsStep(byTech, f, "employment", "Employment")
        byDevType == EqualsStep(byEmployment, f, "dev_type", "DevType")
    IN byDevType


(***************************************************************************)
(* modules/utils.py: Utils.bin_age_groups                                  *)
(***************************************************************************)
default_bins == <<0, 25, 35, 45, 55, 100>>
default_labels == <<"18-24", "25-34", "35-44", "45-54", "55+">>

\* pd.cut(x, bins, labels, right=False) for one cell: the label of the
\* interval [bins[i], bins[i+1]) that holds x, the missing value when no
\* interval does or x is missing; comparing a text with the bins raises
Cut(cell, bins, labels) ==
    IF cell = NaNum THEN [label |-> NaN]
    ELSE IF ~IsNum(cell) THEN Raised("TypeError")
    ELSE LET hits == {i \in DOMAIN labels : bins[i] <= cell.num /\ cell.num < bins[i + 1]}
         IN IF hits = {} THEN [label |-> NaN]
            ELSE [label |-> labels[CHOOSE i \in hits : TRUE]]

bin_age_groups(frame, age_col, bins, labels) ==
    IF ~HasCol(frame, age_col) THEN frame
    ELSE LET b == IF bins = None THEN default_bins ELSE bins.list
             l == IF labels = None THEN default_labels ELSE labels.list
             cut == [i \in DOMAIN frame.rows |-> Cut(frame.rows[i][age_col], b, l)]
         IN IF \E i \in DOMAIN cut : cut[i] = Raised("TypeError")
            THEN Raised("TypeError")
            ELSE AddColumn(frame, "age_group", [i \in DOMAIN cut |-> cut[i].label])

(***************************************************************************)
(* pages/4_Deep_Dive_Visuals.py: the age groups of the burnout section     *)
(***************************************************************************)
deep_dive_bins == <<18, 25, 35, 45, 55, 100>>
deep_dive_labels == <<"18-24", "25-34", "35-44", "45-54", "55+">>

\* pd.cut(x, bins, labels) for one cell, right=True and include_lowest=False
\* being the defaults: the label of the interval (bins[i], bins[i+1]] that
\* holds x, the missing value when no interval does or x is missing
CutRight(cell, bins, labels) ==
    IF cell = NaNum THEN [label |-> NaN]
    ELSE IF ~IsNum(cell) THEN Raised("TypeError")
    ELSE LET hits == {i \in DOMAIN labels : bins[i] < cell.num /\ cell.num <= bins[i + 1]}
         IN IF hits = {} THEN [label |-> NaN]
            ELSE [label |-> labels[CHOOSE i \in hits : TRUE]]

\* pd.cut over a column: a text among the ages raises
CutSeries(column, bins, labels) ==
    LET cut == [i \in DOMAIN column |-> CutRight(column[i], bins, labels)]
    IN IF \E i \in DOMAIN cut : cut[i] = Raised("TypeError")
       THEN Raised("TypeError")
       ELSE [labels |-> [i \in DOMAIN cut |-> cut[i].label]]

(***************************************************************************)
(* Inputs of the index stage: survey frames that vary in the index         *)
(* components, and survey frames that vary in the support columns.         *)
(***************************************************************************)
IndexColumnOrder ==
    <<"Country", "treatment", "work_interfere", "mental_health_consequence",
      "benefits", "care_options">>

ComponentRows ==
    [Country : {"United States", "Germany", NaN},
     treatment : {"Yes", "No"},
     work_interfere : {"Often", "Sometimes", "Never"},
     mental_health_consequence : {"Yes", "No"}]

SupportRows ==
    [Country : {"United States", "Germany", NaN},
     treatment : {"No"},
     work_interfere : {"Never"},
     mental_health_consequence : {"No"},
     benefits : {"Yes", "No"},
     care_options : {"Yes", "No"}]

ComponentFrames ==
    {MkFrame(IndexColumnOrder, S, rows) :
        S \in SUBSET Range(required_cols), rows \in SeqsUpTo(ComponentRows, MaxRows)}

SupportFrames ==
    {MkFrame(IndexColumnOrder, Range(required_cols) \cup S, rows) :
        S \in (SUBSET {"benefits", "care_options"}) \ {{}},
        rows \in SeqsUpTo(SupportRows, MaxRows)}

IndexFrames == ComponentFrames \cup SupportFrames

(***************************************************************************)
(* Floats.  The statistics are float64 in pandas; here a float is an exact *)
(* fraction [n, d] in lowest terms with d > 0, the missing value NaNum, or *)
(* an infinity [inf |-> sign].  A standard deviation is kept as the        *)
(* variance it is the square root of, [sqrt_of |-> variance].              *)
(***************************************************************************)
Abs(x) == IF x < 0 THEN 0 - x ELSE x

RECURSIVE GCD(_, _)
GCD(a, b) == IF b = 0 THEN a ELSE GCD(b, a % b)

Frac(n, d) ==
    LET g == GCD(Abs(n), Abs(d))
        sign == IF d < 0 THEN 0 - 1 ELSE 1
    IN [n |-> (sign * n) \div g, d |-> (sign * d) \div g]

IsFrac(x) == "d" \in DOMAIN x

Inf(sign) == [inf |-> sign]

FSub(a, b) ==
    IF IsFrac(a) /\ IsFrac(b) THEN Frac(a.n * b.d - b.n * a.d, a.d * b.d)
    ELSE IF a = NaNum \/ b = NaNum \/ (~IsFrac(a) /\ ~IsFrac(b) /\ a = b) THEN NaNum
    ELSE IF IsFrac(b) THEN a
    ELSE Inf(0 - b.inf)

FAdd(a, b) == FSub(a, IF IsFrac(b) THEN Frac(0 - b.n, b.d) ELSE IF b = NaNum THEN b ELSE Inf(0 - b.inf))

FSign(a) == IF IsFrac(a) THEN (IF a.n > 0 THEN 1 ELSE IF a.n < 0 THEN 0 - 1 ELSE 0) ELSE a.inf

FMul(a, b) ==
    IF a = NaNum \/ b = NaNum THEN NaNum
    ELSE IF IsFrac(a) /\ IsFrac(b) THEN Frac(a.n * b.n, a.d * b.d)
    ELSE IF FSign(a) * FSign(b) = 0 THEN NaNum
    ELSE Inf(FSign(a) * FSign(b))

\* numpy division: x / 0 is an infinity, 0 / 0 the missing value
FDiv(a, b) ==
    IF a = NaNum \/ b = NaNum THEN NaNum
    ELSE IF IsFrac(a) /\ IsFrac(b)
    THEN IF b.n # 0 THEN Frac(a.n * b.d, a.d * b.n)
         ELSE IF a.n = 0 THEN NaNum ELSE Inf(FSign(a))
    ELSE IF ~IsFrac(a) /\ ~IsFrac(b) THEN NaNum
    ELSE IF IsFrac(a) THEN Frac(0, 1)
    ELSE Inf(FSign(a) * (IF b.n < 0 THEN 0 - 1 ELSE 1))

\* a < b; every comparison with the missing value is False
FLess(a, b) ==
    IF a = NaNum \/ b = NaNum THEN FALSE
    ELSE IF IsFrac(a) /\ IsFrac(b) THEN a.n * b.d < b.n * a.d
    ELSE IF IsFrac(a) THEN b.inf > 0
    ELSE IF IsFrac(b) THEN a.inf < 0
    ELSE a.inf < b.inf

RECURSIVE FSum(_)
FSum(xs) == IF xs = <<>> THEN Frac(0, 1) ELSE FAdd(xs[1], FSum(Tail(xs)))

\* the numbers of a column, the missing values skipped, as floats
Values(cells) ==
    LET nums == SelectSeq(cells, IsNum)
    IN [i \in DOMAIN nums |-> Frac(nums[i].num, 1)]

\* the floats of a Series, the missing values skipped
NotNa(xs) == SelectSeq(xs, LAMBDA x : x # NaNum)

\* Series.mean(): skips the missing values; the missing value if none is left
FMean(xs) ==
    LET v == NotNa(xs)
    IN IF v = <<>> THEN NaNum ELSE FDiv(FSum(v), Frac(Len(v), 1))

\* Series.median()
FMedian(xs) ==
    LET v == SortSeq(NotNa(xs), FLess)
        n == Len(v)
    IN IF n = 0 THEN NaNum
       ELSE IF n % 2 = 1 THEN v[(n + 1) \div 2]
       ELSE FDiv(FAdd(v[n \div 2], v[(n \div 2) + 1]), Frac(2, 1))

\* Series.var(): ddof = 1, the missing value below two values
FVar(xs) ==
    LET v == NotNa(xs)
        m == FMean(v)
    IN IF Len(v) < 2 THEN NaNum
       ELSE FDiv(FSum([i \in DOMAIN v |-> FMul(FSub(v[i], m), FSub(v[i], m))]),
                 Frac(Len(v) - 1, 1))

\* Series.std()
FStd(xs) == IF FVar(xs) = NaNum THEN NaNum ELSE [sqrt_of |-> FVar(xs)]

\* Series.max() and Series.min(), the missing values skipped
FMax(xs) ==
    LET v == NotNa(xs)
    IN IF v = <<>> THEN NaNum
       ELSE v[CHOOSE i \in DOMAIN v : \A j \in DOMAIN v : ~FLess(v[i], v[j])]

FMin(xs) ==
    LET v == NotNa(xs)
    IN IF v = <<>> THEN NaNum
       ELSE v[CHOOSE i \in DOMAIN v : \A j \in DOMAIN v : ~FLess(v[j], v[i])]

(***************************************************************************)
(* Grouped statistics: utils.py and Analysis.compare_groups                *)
(***************************************************************************)
\* the category values of the model, in the order sorting puts them in
KeyOrder ==
    <<"1-5", "6-25", "A", "B", "Back-end", "C", "D", "Dissatisfied", "E", "F", "France",
      "Front-end", "G", "Germany", "No", "Satisfied", "Yes">>

\* df.groupby(col): the groups are the distinct non-missing keys, sorted; a
\* record whose key is missing is in no group (dropna=True)
GroupKeysBy(frame, col) ==
    SelectSeq(KeyOrder, LAMBDA c : \E i \in DOMAIN frame.rows : frame.rows[i][col] = c)

GroupBy(frame, col, key) == SelectSeq(frame.rows, LAMBDA r : r[col] = key)

Column(rows, col) == [i \in DOMAIN rows |-> rows[i][col]]

\* the number of rows of x whose cell of col is one of vals
CountIn(rows, col, vals) == Len(SelectSeq(rows, LAMBDA r : r[col] \in vals))

\* Series.count(): the cells that are not missing
CountNotNa(cells) == Len(SelectSeq(cells, LAMBDA c : c # NaNum))

calculate_treatment_rates_by_attribute(frame, attribute) ==
    IF ~HasCol(frame, attribute) \/ ~HasCol(frame, "treatment") THEN NoFrame
    ELSE LET keys == GroupKeysBy(frame, attribute)
         IN [columns |-> <<attribute, "treatment_rate">>,
             rows |-> [k \in DOMAIN keys |->
                [c \in {attribute, "treatment_rate"} |->
                    IF c = attribute THEN keys[k]
                    ELSE LET x == GroupBy(frame, attribute, keys[k])
                         IN FMul(FDiv(Frac(CountIn(x, "treatment", {"Yes"}), 1),
                                      Frac(Len(x), 1)),
                                 Frac(100, 1))]]]

calculate_compensation_stats_by_attribute(frame, attribute) ==
    IF ~HasCol(frame, attribute) \/ ~HasCol(frame, "convertedcompyearly") THEN NoFrame
    ELSE LET keys == GroupKeysBy(frame, attribute)
         IN [columns |-> <<attribute, "mean", "median", "count">>,
             rows |-> [k \in DOMAIN keys |->
                LET x == Column(GroupBy(frame, attribute, keys[k]), "convertedcompyearly")
                IN [c \in {attribute, "mean", "median", "count"} |->
                      CASE c = attribute -> keys[k]
                        [] c = "mean" -> FMean(Values(x))
                        [] c = "median" -> FMedian(Values(x))
                        [] c = "count" -> CountNotNa(x)]]]

compare_groups(frame, group_col, value_col) ==
    IF ~HasCol(frame, group_col) \/ ~HasCol(frame, value_col) THEN NoFrame
    ELSE LET keys == GroupKeysBy(frame, group_col)
         IN [columns |-> <<group_col, "Mean", "Median", "Count", "Std Dev">>,
             rows |-> [k \in DOMAIN keys |->
                LET x == Column(GroupBy(frame, group_col, keys[k]), value_col)
                IN [c \in {group_col, "Mean", "Median", "Count", "Std Dev"} |->
                      CASE c = group_col -> keys[k]
                        [] c = "Mean" -> FMean(Values(x))
                        [] c = "Median" -> FMedian(Values(x))
                        [] c = "Count" -> CountNotNa(x)
                        [] c = "Std Dev" -> FStd(Values(x))]]]

(***************************************************************************)
(* modules/insights.py.  An insight is an f-string: here the name of its   *)
(* template and the values put into it, in order: [name |-> ...] for a     *)
(* label, and for a number the decimal text the format spec produces.      *)
(***************************************************************************)
Name(s) == [name |-> s]

\* f"{x:.pf}": x rounded (half to even) to p decimals, as the integer
\* scaled = x * 10^p; 'nan' and 'inf' for the special floats
Fmt(x, p) ==
    IF x = NaNum THEN [text |-> "nan"]
    ELSE IF ~IsFrac(x) THEN [text |-> IF x.inf > 0 THEN "inf" ELSE "-inf"]
    ELSE LET n == x.n * (IF p = 2 THEN 100 ELSE 10)
             q == n \div x.d
             r == n % x.d
         IN [places |-> p,
             scaled |-> IF 2 * r < x.d THEN q
                        ELSE IF 2 * r > x.d THEN q + 1
                        ELSE IF q % 2 = 0 THEN q ELSE q + 1]

Statement(template, fields) == [template |-> template, fields |-> fields]

\* a generator that returns nothing where it should return the sentinel
Insufficient_Empty(template) == <<>>

\* return ["Insufficient data to generate ... insights."]
Insufficient(template) == <<Statement(template, <<>>)>>

\* an error insight that leaves the failure reason out
ErrorInsight_NoReason(template, e) == Statement(template, <<>>)

\* f"Error generating ... insights: {str(e)}"
ErrorInsight(template, e) == Statement(template, <<[reason |-> e]>>)

\* (value_counts(normalize=True).get(v, 0) summed over vals) * 100: the
\* shares are taken among the records whose cell is not missing
SharePct(frame, col, vals) ==
    LET present == SelectSeq(frame.rows, LAMBDA r : r[col] # NaN)
    IN IF present = <<>> THEN Frac(0, 1)
       ELSE FMul(Frac(CountIn(present, col, vals), Len(present)), Frac(100, 1))

\* x.isin(vals).mean() * 100 over the rows x, x not empty
MaskMeanPct(x, col, vals) == FMul(Frac(CountIn(x, col, vals), Len(x)), Frac(100, 1))

\* Series.sort_values(ascending): by value, the missing values last, equal
\* values in the order they had
SortValues(series, ascending) ==
    LET Before(i, j) ==
            IF series[i].value = NaNum \/ series[j].value = NaNum
            THEN (series[i].value # NaNum /\ series[j].value = NaNum)
                 \/ (series[i].value = series[j].value /\ i < j)
            ELSE IF series[i].value = series[j].value THEN i < j
            ELSE IF ascending THEN FLess(series[i].value, series[j].value)
            ELSE FLess(series[j].value, series[i].value)
        order == SortSeq([i \in DOMAIN series |-> i], Before)
    IN [k \in DOMAIN series |-> series[order[k]]]

\* df.groupby(by)[col].apply(lambda x: x.isin(vals).mean() * 100).sort_values()
RatesBy(frame, by, col, vals) ==
    LET keys == GroupKeysBy(frame, by)
    IN SortValues([k \in DOMAIN keys |->
                     [key |-> keys[k],
                      value |-> MaskMeanPct(GroupBy(frame, by, keys[k]), col, vals)]], TRUE)

\* ranking statements that name the group and leave the rate out
LowestHighest_NoNumber(series, lowest, highest) ==
    IF series = <<>> THEN <<>>
    ELSE <<Statement(lowest, <<Name(series[1].key)>>),
           Statement(highest, <<Name(series[Len(series)].key)>>)>>

\* the two statements about the first and the last entry of a sorted Series
LowestHighest(series, lowest, highest) ==
    IF series = <<>> THEN <<>>
    ELSE <<Statement(lowest, <<Name(series[1].key), Fmt(series[1].value, 1)>>),
           Statement(highest, <<Name(series[Len(series)].key),
                                Fmt(series[Len(series)].value, 1)>>)>>

\* df[col].dtype in [np.float64, np.int64]; a frame handed to these
\* generators carries the dtype of each column
IsNumeric(frame, col) == frame.dtypes[col] \in {"float64", "int64"}

RECURSIVE SumInts(_)
SumInts(xs) == IF xs = <<>> THEN 0 ELSE xs[1] + SumInts(Tail(xs))

\* df[[x_col, y_col]].corr().iloc[0, 1]: Pearson's r over the records that
\* have both values, r = cov / sqrt(vx * vy), kept as the three integers
\* (each scaled by the square of the number of records); the missing value
\* below two records or when a column is constant
Corr(frame, x_col, y_col) ==
    LET both == SelectSeq(frame.rows, LAMBDA r : IsNum(r[x_col]) /\ IsNum(r[y_col]))
        n == Len(both)
        x == [i \in DOMAIN both |-> both[i][x_col].num]
        y == [i \in DOMAIN both |-> both[i][y_col].num]
        cov == n * SumInts([i \in DOMAIN both |-> x[i] * y[i]]) - SumInts(x) * SumInts(y)
        vx == n * SumInts([i \in DOMAIN both |-> x[i] * x[i]]) - SumInts(x) * SumInts(x)
        vy == n * SumInts([i \in DOMAIN both |-> y[i] * y[i]]) - SumInts(y) * SumInts(y)
    IN IF n < 2 \/ vx = 0 \/ vy = 0 THEN NaNum ELSE [cov |-> cov, vx |-> vx, vy |-> vy]

\* a band test that takes in the threshold itself
Beyond_OrEqual(correlation, sign, tenths) ==
    /\ correlation # NaNum
    /\ correlation.cov * sign > 0
    /\ 100 * correlation.cov * correlation.cov
          >= tenths * tenths * correlation.vx * correlation.vy

\* correlation > tenths / 10 (sign = 1), correlation < -tenths / 10 (sign = -1)
Beyond(correlation, sign, tenths) ==
    /\ correlation # NaNum
    /\ correlation.cov * sign > 0
    /\ 100 * correlation.cov * correlation.cov
          > tenths * tenths * correlation.vx * correlation.vy

\* lines 65-74
TrendBand(correlation) ==
    IF Beyond(correlation, 1, 7) THEN "strong_positive"
    ELSE IF Beyond(correlation, 1, 3) THEN "moderate_positive"
    ELSE IF Beyond(correlation, 0 - 1, 7) THEN "strong_negative"
    ELSE IF Beyond(correlation, 0 - 1, 3) THEN "moderate_negative"
    ELSE "no_clear_trend"

\* df.groupby(by)[col].mean() and .agg(['mean', 'count']), sorted by the mean
MeansBy(frame, by, col, ascending) ==
    LET keys == GroupKeysBy(frame, by)
    IN SortValues([k \in DOMAIN keys |->
                     LET x == Column(GroupBy(frame, by, keys[k]), col)
                     IN [key |-> keys[k], value |-> FMean(Values(x)), count |-> CountNotNa(x)]],
                  ascending)

\* group_col is None or the Name of a column.  The mean of a column that
\* is not numeric and indexing an empty Series raise; the except branch
\* appends the error insight to what was appended before
generate_trend_insights(frame, x_col, y_col, group_col) ==
    IF ~HasCol(frame, x_col) \/ ~HasCol(frame, y_col)
    THEN Insufficient("insufficient_data")
    ELSE
    LET y == Values(Column(frame.rows, y_col))
        basic ==
            IF IsNumeric(frame, y_col)
            THEN <<Statement("average", <<Name(y_col), Fmt(FMean(y), 2)>>),
                   Statement("highest_lowest",
                             <<Name(y_col), Fmt(FMax(y), 2), Name(y_col), Fmt(FMin(y), 2)>>)>>
            ELSE <<>>
        group_means == MeansBy(frame, group_col.name, y_col, FALSE)
        top == group_means[1]
        bottom == group_means[Len(group_means)]
        diff_pct == FMul(FDiv(FSub(top.value, bottom.value), bottom.value), Frac(100, 1))
        grouped == group_col # None /\ HasCol(frame, group_col.name)
        groups_error ==
            IF ~grouped THEN "none"
            ELSE IF ~IsNumeric(frame, y_col) THEN "TypeError"
            ELSE IF group_means = <<>> THEN "IndexError"
            ELSE "none"
        groups ==
            IF ~grouped \/ groups_error # "none" THEN <<>>
            ELSE <<Statement("group_highest", <<Name(top.key), Name(y_col), Fmt(top.value, 2)>>),
                   Statement("group_lowest",
                             <<Name(bottom.key), Name(y_col), Fmt(bottom.value, 2)>>),
                   Statement("group_difference", <<Fmt(diff_pct, 1)>>)>>
        trend_error ==
            IF IsNumeric(frame, x_col) /\ ~IsNumeric(frame, y_col) THEN "ValueError" ELSE "none"
        trend ==
            IF ~IsNumeric(frame, x_col) \/ trend_error # "none" THEN <<>>
            ELSE <<Statement(TrendBand(Corr(frame, x_col, y_col)), <<Name(x_col), Name(y_col)>>)>>
    IN IF groups_error # "none"
       THEN basic \o <<ErrorInsight("error_insights", groups_error)>>
       ELSE IF trend_error # "none"
       THEN basic \o groups \o <<ErrorInsight("error_insights", trend_error)>>
       ELSE basic \o groups \o trend

\* a comparison that reports up to n + 1 categories at each end
HeadRows_OneMore(series, n) == SubSeq(series, 1, Min(n + 1, Len(series)))

\* DataFrame.head(n) and DataFrame.tail(n)
HeadRows(series, n) == SubSeq(series, 1, Min(n, Len(series)))

\* a tail that leaves out the rows head(n) took
TailRows_AfterHead(series, n) == SubSeq(series, Max(n + 1, Len(series) - n + 1), Len(series))

\* DataFrame.tail(n)
TailRows(series, n) == SubSeq(series, Max(1, Len(series) - n + 1), Len(series))

generate_comparison_insights(frame, category_col, value_col) ==
    IF ~HasCol(frame, category_col) \/ ~HasCol(frame, value_col)
    THEN Insufficient("insufficient_comparison_data")
    ELSE IF ~IsNumeric(frame, value_col) THEN <<>>
    ELSE
    LET category_stats == MeansBy(frame, category_col, value_col, FALSE)
        top_categories == HeadRows(category_stats, 3)
        bottom_categories == TailRows(category_stats, 3)
        Line(row) == Statement("category_line",
                               <<Name(row.key), Fmt(row.value, 2), [int |-> row.count]>>)
        overall_mean == FMean(Values(Column(frame.rows, value_col)))
        category_variance == FVar([k \in DOMAIN category_stats |-> category_stats[k].value])
    IN <<Statement("top_heading", <<>>)>>
       \o [k \in DOMAIN top_categories |-> Line(top_categories[k])]
       \o <<Statement("bottom_heading", <<>>)>>
       \o [k \in DOMAIN bottom_categories |-> Line(bottom_categories[k])]
       \o <<Statement("overall_average", <<Fmt(overall_mean, 2)>>)>>
       \o <<Statement(IF FLess(Frac(1, 1), category_variance)
                      THEN "high_variance" ELSE "low_variance", <<>>)>>

\* lines 185-198
RemoteWorkInsight(mh) ==
    IF ~(HasCol(mh, "remote_work") /\ HasCol(mh, "work_interfere")) THEN <<>>
    ELSE LET remote_work == GroupBy(mh, "remote_work", "Yes")
             non_remote == GroupBy(mh, "remote_work", "No")
         IN IF remote_work = <<>> \/ non_remote = <<>> THEN <<>>
            ELSE LET remote_interfere ==
                         MaskMeanPct(remote_work, "work_interfere", {"Often", "Sometimes"})
                     non_remote_interfere ==
                         MaskMeanPct(non_remote, "work_interfere", {"Often", "Sometimes"})
                 IN IF FLess(remote_interfere, non_remote_interfere)
                    THEN <<Statement("remote_less",
                              <<Fmt(FSub(non_remote_interfere, remote_interfere), 1)>>)>>
                    ELSE <<Statement("remote_more",
                              <<Fmt(FSub(remote_interfere, non_remote_interfere), 1)>>)>>

\* lines 213-224: the pivot table counts the records of each (JobSatisfaction,
\* MentalHealth) pair, the records missing either left out
JobSatisfactionInsight(so) ==
    IF ~(HasCol(so, "JobSatisfaction") /\ HasCol(so, "MentalHealth")) THEN <<>>
    ELSE LET counted == SelectSeq(so.rows,
                            LAMBDA r : r["JobSatisfaction"] # NaN /\ r["MentalHealth"] # NaN)
             levels == GroupKeysBy([rows |-> counted], "JobSatisfaction")
             Size(level, health) ==
                 CountIn(SelectSeq(counted, LAMBDA r : r["JobSatisfaction"] = level),
                         "MentalHealth", {health})
             Ratio == [k \in DOMAIN levels |->
                          FDiv(Frac(Size(levels[k], "Excellent"), 1),
                               Frac(Size(levels[k], "Poor"), 1))]
         IN IF counted = <<>>
               \/ CountIn(counted, "MentalHealth", {"Excellent"}) = 0
               \/ CountIn(counted, "MentalHealth", {"Poor"}) = 0
            THEN <<>>
            ELSE LET idxmax == CHOOSE k \in DOMAIN levels :
                                  /\ Ratio[k] # NaNum
                                  /\ \A j \in DOMAIN levels : ~FLess(Ratio[k], Ratio[j])
                                  /\ \A j \in 1..(k - 1) :
                                        Ratio[j] = NaNum \/ FLess(Ratio[j], Ratio[k])
                 IN <<Statement("best_job_satisfaction", <<Name(levels[idxmax])>>)>>

\* every analysis is inside the try block and none of them raises on frames
\* of categorical columns, so the except branch adds nothing
generate_mental_health_insights(mental_health_df, stackoverflow_df) ==
    LET mh == mental_health_df
        so == stackoverflow_df
        treatment ==
            IF HasCol(mh, "treatment")
            THEN <<Statement("treatment_pct", <<Fmt(SharePct(mh, "treatment", {"Yes"}), 1)>>)>>
            ELSE <<>>
        interfere ==
            IF HasCol(mh, "work_interfere")
            THEN <<Statement("interfere_pct",
                      <<Fmt(SharePct(mh, "work_interfere", {"Often", "Sometimes"}), 1)>>)>>
            ELSE <<>>
        by_size ==
            IF HasCol(mh, "no_employees") /\ HasCol(mh, "mental_health_consequence")
            THEN LowestHighest(RatesBy(mh, "no_employees", "mental_health_consequence", {"Yes"}),
                               "size_lowest", "size_highest")
            ELSE <<>>
        dev_mental_health ==
            IF HasCol(so, "MentalHealth") /\ HasCol(so, "DevType")
            THEN LowestHighest(RatesBy(so, "DevType", "MentalHealth", {"Poor", "Fair"}),
                               "role_lowest", "role_highest")
            ELSE <<>>
    IN treatment \o interfere \o by_size \o RemoteWorkInsight(mh) \o dev_mental_health
       \o JobSatisfactionInsight(so)

(***************************************************************************)
(* modules/insights.py: Insights.format_insights                           *)
(***************************************************************************)
\* the first character of the text of an insight, as far as format_insights
\* tells it apart: the category lines are written "- ...", the heading of
\* the lowest categories and the overall average "\n..."
FirstChar(insight) ==
    IF insight.template = "category_line" THEN "-"
    ELSE IF insight.template \in {"bottom_heading", "overall_average"} THEN "\n"
    ELSE "other"

\* the number format_insights puts before the i-th insight of the list
ItemNumber(insights_list, i) == i

\* the rendered text: the fixed sentence for an empty list, else the
\* heading and one line for each insight, numbered unless it starts with
\* '-' or a newline
format_insights(insights_list) ==
    IF insights_list = <<>> THEN Name("No insights available.")
    ELSE [heading |-> "## Key Insights",
          lines |-> [i \in DOMAIN insights_list |->
                       IF FirstChar(insights_list[i]) \in {"-", "\n"}
                       THEN [insight |-> insights_list[i]]
                       ELSE [number |-> ItemNumber(insights_list, i),
                             insight |-> insights_list[i]]]]

(***************************************************************************)
(* The index stage: the page calls the index builder on its frame, and     *)
(* calls it again on every rerun.                                          *)
(***************************************************************************)
IndexIdle == ncalls = 0 /\ index = NoFrame

FilterIdle ==
    /\ filters = None
    /\ survey = "none"
    /\ filtered = NotCalled
    /\ refiltered = NotCalled

AgeIdle ==
    ages = <<>> /\ app_groups = NotCalled /\ binned = NotCalled /\ cut_groups = NotCalled

TightenIdle == looser = None /\ loosened = NotCalled

AggIdle ==
    /\ rates = NotCalled
    /\ comp_stats = NotCalled
    /\ group_stats = NotCalled
    /\ mh_insights = NotCalled
    /\ comparison = NotCalled

InsightIdle == call = None /\ insights = NotCalled /\ formatted = NotCalled

PagesIdle == page = "none" /\ overview = NotCalled /\ charts = NotCalled

StagesIdle == TightenIdle /\ AggIdle /\ InsightIdle /\ PagesIdle

InitIndex ==
    /\ phase = "index"
    /\ df \in IndexFrames
    /\ IndexIdle
    /\ FilterIdle
    /\ AgeIdle
    /\ StagesIdle

CallIndex ==
    /\ phase = "index"
    /\ ncalls < MaxCalls
    /\ \E seed \in 0..(RngMod - 1) :
          index' = create_country_mental_health_index(df, seed)
    /\ ncalls' = ncalls + 1
    /\ UNCHANGED <<phase, df, filters, survey, filtered, refiltered, ages, app_groups, binned, cut_groups, stageVars>>

NextIndex == CallIndex

SpecIndex == InitIndex /\ [][NextIndex]_vars

(***************************************************************************)
(* Inputs of the filter stage.  A frame has no filterable column, one, or  *)
(* the country column and one other; a selection constrains no field, one, *)
(* or the country and one other.                                           *)
(***************************************************************************)
AppAges == {Num(24), Num(25), Num(60), NaNum}
PageAges == {Num(20), Num(25), Num(30), Num(40), NaNum}
AgeRanges == {<<20, 30>>, <<30, 40>>}

Cells(col) ==
    CASE col = "age" -> AppAges
      [] col = "Age" -> PageAges
      [] col \in {"country", "Country"} -> {"Germany", "France", NaN}
      [] col \in {"gender", "Gender"} -> {"Male", "Female", NaN}
      [] col \in {"employment", "Employment"} -> {"Employed", "Student", NaN}
      [] col = "remotework" -> {"Remote", "In-person", NaN}
      [] col = "no_employees" -> {"1-5", "6-25", NaN}
      [] col = "remote_work" -> {"Yes", "No", NaN}
      [] col = "tech_company" -> {"Yes", "No", NaN}
      [] col = "DevType" -> {"Back-end", "Front-end", NaN}
      [] col = "treatment" -> {"Yes", "No", NaN}
      [] col = "convertedcompyearly" -> {Num(2), Num(6), NaNum}
      [] col = "YearsCodingProf" -> {Num(0), Num(1), NaNum}
      [] col = "mental_health_score" -> {Num(0), Num(1), NaNum}
      [] col = "Poor" -> {Num(2), Num(6), NaNum}
      [] col = "age_group" -> {"25-34", "35-44"}
      [] col = "UndergradMajor" -> {"A", "B", NaN}
      [] col = "work_interfere" -> {"Often", "Sometimes", "Never", NaN}
      [] col = "mental_health_consequence" -> {"Yes", "No", NaN}
      [] col = "MentalHealth" -> {"Excellent", "Good", "Fair", "Poor", NaN}
      [] col = "JobSatisfaction" -> {"Satisfied", "Dissatisfied", NaN}

RowsOver1(x) == {[c \in {x} |-> v] : v \in Cells(x)}

RowsOver2(x, y) ==
    {[c \in {x, y} |-> IF c = x THEN v ELSE w] : v \in Cells(x), w \in Cells(y)}

FramesOver(cols, rowset) ==
    {[columns |-> cols, rows |-> rows] : rows \in SeqsUpTo(rowset, MaxRecords)}

\* Scenario 2: three German records and seven others, one of them without country
ScenarioRows(col) ==
    [i \in 1..10 |-> [c \in {col} |->
        IF i \in {2, 5, 9} THEN "Germany" ELSE IF i = 7 THEN NaN ELSE "France"]]

AppColumns(type) ==
    IF type = "mental_health"
    THEN <<"country", "age", "gender">>
    ELSE <<"country", "age", "employment", "remotework">>

AppFrames(type) ==
    LET others == Range(AppColumns(type)) \ {"country"}
    IN FramesOver(<<>>, {<<>>})
       \cup UNION {FramesOver(<<x>>, RowsOver1(x)) : x \in Range(AppColumns(type))}
       \cup UNION {FramesOver(<<"country", x>>, RowsOver2("country", x)) : x \in others}
       \cup {[columns |-> <<"country">>, rows |-> ScenarioRows("country")]}

AppKeys == {"countries", "age_groups", "genders", "employment", "remote"}

AppChoices(key) ==
    CASE key = "countries" -> {List(<<"Germany">>), List(<<"Germany", "France">>)}
      [] key = "age_groups" -> {List(<<"Under 25">>), List(<<"25-34", "55+">>), List(age_groups)}
      [] key = "genders" -> {List(<<"Male">>)}
      [] key = "employment" -> {List(<<"Employed">>)}
      [] key = "remote" -> {List(<<"Remote">>)}

\* the dictionary add_sidebar_filters returns: every key present, the fields
\* without a constraint all None or all the empty list
Unconstrained(empty) == [k \in AppKeys |-> empty]

OneConstraint(base) ==
    UNION {{[base EXCEPT ![k] = v] : v \in AppChoices(k)} : k \in AppKeys}

AppFilters ==
    UNION {LET base == Unconstrained(empty)
               byCountry == {[base EXCEPT !["countries"] = v] : v \in AppChoices("countries")}
           IN {base} \cup OneConstraint(base) \cup UNION {OneConstraint(c) : c \in byCountry} :
           empty \in {None, List(<<>>)}}

PageColumns ==
    <<"Country", "Age", "Gender", "no_employees", "remote_work", "tech_company",
      "Employment", "DevType">>

PageFrames ==
    LET others == Range(PageColumns) \ {"Country"}
    IN FramesOver(<<>>, {<<>>})
       \cup UNION {FramesOver(<<x>>, RowsOver1(x)) : x \in Range(PageColumns)}
       \cup UNION {FramesOver(<<"Country", x>>, RowsOver2("Country", x)) : x \in others}
       \cup {[columns |-> <<"Country">>, rows |-> ScenarioRows("Country")]}

\* filter key -> column, as paired in apply_filters
KeyColumn ==
    [country |-> "Country", age_range |-> "Age", gender |-> "Gender",
     org_size |-> "no_employees", remote_work |-> "remote_work",
     tech_company |-> "tech_company", employment |-> "Employment", dev_type |-> "DevType"]

PageKeys == DOMAIN KeyColumn

PageChoices(key) ==
    CASE key = "age_range" -> AgeRanges
      [] key = "country" -> {"All", "Germany"}
      [] key = "gender" -> {"All", "Male"}
      [] key = "org_size" -> {"All", "1-5"}
      [] key = "remote_work" -> {"All", "Yes"}
      [] key = "tech_company" -> {"All", "Yes"}
      [] key = "employment" -> {"All", "Employed"}
      [] key = "dev_type" -> {"All", "Back-end"}

\* the dictionary Filters.add_sidebar_filters returns: a key only for the
\* columns the survey frames had when the sidebar was built
PageFilters ==
    {<<>>}
    \cup UNION {{[k \in {x} |-> v] : v \in PageChoices(x)} : x \in PageKeys}
    \cup UNION {{[k \in {"country", x} |-> IF k = x THEN v ELSE c] :
                    v \in PageChoices(x), c \in PageChoices("country")} :
                x \in PageKeys \ {"country"}}

(***************************************************************************)
(* The filter stage: a page filters its frame with the sidebar selections, *)
(* and a rerun filters the result again with the same selections.          *)
(***************************************************************************)
InitFilter ==
    /\ IndexIdle
    /\ AgeIdle
    /\ StagesIdle
    /\ filtered = NotCalled
    /\ refiltered = NotCalled
    /\ \/ /\ phase = "filter_data"
          /\ survey \in {"mental_health", "stackoverflow"}
          /\ df \in AppFrames(survey)
          /\ filters \in AppFilters
       \/ /\ phase = "apply_filters"
          /\ survey = "none"
          /\ df \in PageFrames
          /\ filters \in PageFilters

FilterData ==
    /\ phase = "filter_data"
    /\ filtered = NotCalled
    /\ filtered' = filter_data(df, filters, survey)
    /\ df' = filter_data_input(df, filters, survey)
    /\ UNCHANGED <<phase, ncalls, index, filters, survey, refiltered, ages, app_groups, binned, cut_groups, stageVars>>

FilterDataAgain ==
    /\ phase = "filter_data"
    /\ IsFrame(filtered)
    /\ refiltered = NotCalled
    /\ refiltered' = filter_data(filtered, filters, survey)
    /\ filtered' = filter_data_input(filtered, filters, survey)
    /\ UNCHANGED <<phase, df, ncalls, index, filters, survey, ages, app_groups, binned, cut_groups, stageVars>>

ApplyFilters ==
    /\ phase = "apply_filters"
    /\ filtered = NotCalled
    /\ filtered' = apply_filters(df, filters)
    /\ UNCHANGED <<phase, df, ncalls, index, filters, survey, refiltered, ages, app_groups, binned, cut_groups, stageVars>>

ApplyFiltersAgain ==
    /\ phase = "apply_filters"
    /\ IsFrame(filtered)
    /\ refiltered = NotCalled
    /\ refiltered' = apply_filters(filtered, filters)
    /\ UNCHANGED <<phase, df, ncalls, index, filters, survey, filtered, ages, app_groups, binned, cut_groups, stageVars>>

NextFilter == FilterData \/ FilterDataAgain \/ ApplyFilters \/ ApplyFiltersAgain

SpecFilter == InitFilter /\ [][NextFilter]_vars

(***************************************************************************)
(* The bucketing stage: an age column is bucketed by app.py's              *)
(* get_age_group and by Utils.bin_age_groups.                              *)
(***************************************************************************)
TopBin == default_bins[Len(default_bins)]

AgeInputs ==
    {Num(a) : a \in (0 - AgeMargin)..(TopBin + AgeMargin)} \cup {NaNum, Text("n/a")}

\* Scenario 3
ScenarioAges == <<Num(20), Num(30), Num(40), Num(50), Num(60)>>

AgeColumns == {<<a>> : a \in AgeInputs} \cup {ScenarioAges}

AgeFrame(column) == [columns |-> <<"Age">>, rows |-> [i \in DOMAIN column |-> [Age |-> column[i]]]]

InitAge ==
    /\ phase = "age"
    /\ df = NoFrame
    /\ IndexIdle
    /\ FilterIdle
    /\ StagesIdle
    /\ ages \in AgeColumns
    /\ app_groups = NotCalled
    /\ binned = NotCalled
    /\ cut_groups = NotCalled

\* Series.apply(get_age_group), the outcome of each element kept apart
GetAgeGroup ==
    /\ phase = "age"
    /\ app_groups = NotCalled
    /\ app_groups' = [outcomes |-> [i \in DOMAIN ages |-> get_age_group(ages[i])]]
    /\ UNCHANGED <<phase, df, ncalls, index, filters, survey, filtered, refiltered, ages, binned, cut_groups, stageVars>>

BinAgeGroups ==
    /\ phase = "age"
    /\ binned = NotCalled
    /\ binned' = bin_age_groups(AgeFrame(ages), "Age", None, None)
    /\ UNCHANGED <<phase, df, ncalls, index, filters, survey, filtered, refiltered, ages,
                   app_groups, cut_groups, stageVars>>

\* the age groups of the burnout section of the Deep Dive page
DeepDiveAgeGroups ==
    /\ phase = "age"
    /\ cut_groups = NotCalled
    /\ cut_groups' = CutSeries(ages, deep_dive_bins, deep_dive_labels)
    /\ UNCHANGED <<phase, df, ncalls, index, filters, survey, filtered, refiltered, ages,
                   app_groups, binned, stageVars>>

NextAge == GetAgeGroup \/ BinAgeGroups \/ DeepDiveAgeGroups

SpecAge == InitAge /\ [][NextAge]_vars

(***************************************************************************)
(* Properties of the index stage.                                          *)
(***************************************************************************)
IndexCalled == phase = "index" /\ ncalls > 0

\* the frame returned is the computed one (it carries the component columns)
IsComputed(frame) == HasCol(frame, "treatment")

\* the countries that occur in the input
InputCountries(frame) ==
    IF HasCol(frame, "Country")
    THEN {frame.rows[i]["Country"] : i \in DOMAIN frame.rows} \ {NaN}
    ELSE {}

\* number of records of country c whose column col holds one of vals
NumWhere(frame, c, col, vals) ==
    Cardinality({i \in DOMAIN frame.rows :
                    frame.rows[i]["Country"] = c /\ frame.rows[i][col] \in vals})

GroupSize(frame, c) ==
    Cardinality({i \in DOMAIN frame.rows : frame.rows[i]["Country"] = c})

\* the rate of vals in column col among the records of country c, in 1/Scale
RateOf(frame, c, col, vals) ==
    (NumWhere(frame, c, col, vals) * Scale) \div GroupSize(frame, c)

\* C1: every Mental Health Index returned (computed or synthetic) lies in
\* [0, 10]; in the computed frame it is the clip of the combination of the
\* three stored components, and the stored components are the unclipped
\* weighted rates.
C1_IndexBounds ==
    IndexCalled =>
        /\ \A k \in DOMAIN index.rows :
              /\ index.rows[k].MentalHealthIndex >= 0
              /\ index.rows[k].MentalHealthIndex <= 10 * Scale
        /\ IsComputed(index) =>
              \A k \in DOMAIN index.rows :
                 LET e == index.rows[k]
                     sum == e.treatment - e.work_interfere - e.mental_health_consequence
                 IN /\ e.MentalHealthIndex =
                          (IF sum < 0 THEN 0 ELSE IF sum > 10 * Scale THEN 10 * Scale ELSE sum)
                    /\ e.treatment = 10 * RateOf(df, e.Country, "treatment", {"Yes"})
                    /\ e.work_interfere =
                          -5 * RateOf(df, e.Country, "work_interfere", {"Often", "Sometimes"})
                    /\ e.mental_health_consequence =
                          -5 * RateOf(df, e.Country, "mental_health_consequence", {"Yes"})

\* a computed index where the clip is what keeps one country at 10 and where
\* a stored component is negative
C1_Witness ==
    /\ IndexCalled
    /\ IsComputed(index)
    /\ \E k \in DOMAIN index.rows :
          LET e == index.rows[k]
          IN /\ e.treatment - e.work_interfere - e.mental_health_consequence > 10 * Scale
             /\ e.work_interfere < 0
             /\ e.MentalHealthIndex = 10 * Scale

\* C2: the unclipped index is 10 x treatment rate - 5 x interference rate
\* - 5 x feared-consequence rate, so of two countries with the same
\* treatment rate the one with the higher adverse rates never has the
\* higher index.
C2_SignedWeights ==
    (IndexCalled /\ IsComputed(index)) =>
        /\ \A k \in DOMAIN index.rows :
              LET e == index.rows[k]
                  sum == 10 * RateOf(df, e.Country, "treatment", {"Yes"})
                         - 5 * RateOf(df, e.Country, "work_interfere", {"Often", "Sometimes"})
                         - 5 * RateOf(df, e.Country, "mental_health_consequence", {"Yes"})
              IN e.MentalHealthIndex =
                    (IF sum < 0 THEN 0 ELSE IF sum > 10 * Scale THEN 10 * Scale ELSE sum)
        /\ \A j, k \in DOMAIN index.rows :
              LET a == index.rows[j]
                  b == index.rows[k]
                  ta == RateOf(df, a.Country, "treatment", {"Yes"})
                  tb == RateOf(df, b.Country, "treatment", {"Yes"})
                  wa == RateOf(df, a.Country, "work_interfere", {"Often", "Sometimes"})
                  wb == RateOf(df, b.Country, "work_interfere", {"Often", "Sometimes"})
                  ca == RateOf(df, a.Country, "mental_health_consequence", {"Yes"})
                  cb == RateOf(df, b.Country, "mental_health_consequence", {"Yes"})
              IN (ta = tb /\ wa >= wb /\ ca >= cb /\ (wa > wb \/ ca > cb))
                    => a.MentalHealthIndex <= b.MentalHealthIndex

\* C3 as stated: a further call on the same frame returns the same frame,
\* whichever columns the input has.
C3_Deterministic ==
    [][(phase = "index" /\ ncalls >= 1 /\ ncalls' = ncalls + 1) => index' = index]_vars

\* C3 as amended: a further call returns the same countries with the same
\* Mental Health Index when the four required columns are present, and the
\* same Support and Awareness Scores too when benefits and care_options are
\* also present.
C3_DeterministicWhenComputed ==
    [][(phase = "index" /\ ncalls >= 1 /\ ncalls' = ncalls + 1 /\ HasAll(df, required_cols)) =>
          /\ Len(index'.rows) = Len(index.rows)
          /\ \A k \in DOMAIN index.rows :
                /\ index'.rows[k].Country = index.rows[k].Country
                /\ index'.rows[k].MentalHealthIndex = index.rows[k].MentalHealthIndex
          /\ (HasCol(df, "benefits") /\ HasCol(df, "care_options")) => index' = index]_vars

\* a second call was made on a frame that has every column and some country
C3_Witness ==
    /\ phase = "index"
    /\ ncalls = 2
    /\ HasAll(df, required_cols)
    /\ HasCol(df, "benefits")
    /\ HasCol(df, "care_options")
    /\ Len(index.rows) = 2

\* the components of a country that the input's columns allow to compute
PartialSum(frame, c) ==
    (IF HasCol(frame, "treatment")
     THEN 10 * RateOf(frame, c, "treatment", {"Yes"}) ELSE 0)
    - (IF HasCol(frame, "work_interfere")
       THEN -5 * RateOf(frame, c, "work_interfere", {"Often", "Sometimes"}) ELSE 0)
    - (IF HasCol(frame, "mental_health_consequence")
       THEN -5 * RateOf(frame, c, "mental_health_consequence", {"Yes"}) ELSE 0)

MissingComponents(frame) ==
    {c \in {"treatment", "work_interfere", "mental_health_consequence"} : ~HasCol(frame, c)}

\* C4 as stated: with Country present and one component column absent, the
\* result has exactly one entry per input country, holding the partial sum
\* of the available components.
C4_PartialSumKept ==
    (IndexCalled /\ HasCol(df, "Country") /\ Cardinality(MissingComponents(df)) = 1) =>
        /\ {index.rows[k].Country : k \in DOMAIN index.rows} = InputCountries(df)
        /\ Len(index.rows) = Cardinality(InputCountries(df))
        /\ \A k \in DOMAIN index.rows :
              LET sum == PartialSum(df, index.rows[k].Country)
              IN index.rows[k].MentalHealthIndex =
                    (IF sum < 0 THEN 0 ELSE IF sum > 10 * Scale THEN 10 * Scale ELSE sum)

\* C4 as amended: with all four required columns present the result has
\* exactly one entry per country of the input and no other; with a required
\* column absent the result is the ten fixed synthetic countries, each with
\* an index in [3, 8), whatever countries the input holds.
C4_CountriesOrSynthetic ==
    IndexCalled =>
        IF HasAll(df, required_cols)
        THEN /\ {index.rows[k].Country : k \in DOMAIN index.rows} = InputCountries(df)
             /\ Len(index.rows) = Cardinality(InputCountries(df))
        ELSE /\ [k \in DOMAIN index.rows |-> index.rows[k].Country] = countries
             /\ ~IsComputed(index)
             /\ \A k \in DOMAIN index.rows :
                   /\ index.rows[k].MentalHealthIndex >= 3 * Scale
                   /\ index.rows[k].MentalHealthIndex < 8 * Scale

\* the builder ran on a frame with two countries that lacks one component
C4_Witness ==
    /\ IndexCalled
    /\ HasCol(df, "Country")
    /\ Cardinality(MissingComponents(df)) = 1
    /\ Cardinality(InputCountries(df)) = 2
    /\ Len(index.rows) = 10

(***************************************************************************)
(* Properties of the filter stage.                                         *)
(***************************************************************************)
\* the records of a frame, each cut down to the columns cols
Projected(frame, cols) == [i \in DOMAIN frame.rows |-> Restrict(frame.rows[i], cols)]

\* the records the filter returned, without the derived age_group column
Returned == Projected(filtered, Range(df.columns))

Occurs(rows, r) == Cardinality({i \in DOMAIN rows : rows[i] = r})

\* output holds only input records that are accepted, and every accepted
\* input record, as often as the input holds it
KeptExactly(input, output, accepted) ==
    /\ \A i \in DOMAIN output : output[i] \in accepted /\ Occurs(input, output[i]) > 0
    /\ \A i \in DOMAIN input :
          input[i] \in accepted => Occurs(output, input[i]) = Occurs(input, input[i])

\* the fields a selection constrains
AppActive(f) == {k \in AppKeys : f[k] # None /\ f[k].list # <<>>}
PageActive(f) == {k \in DOMAIN f : k = "age_range" \/ f[k] # "All"}

\* the fields filter_data looks at for a survey, and the column of each
AppRelevant(type) ==
    IF type = "mental_health"
    THEN {"countries", "age_groups", "genders"}
    ELSE {"countries", "age_groups", "employment", "remote"}

AppColumn ==
    [countries |-> "country", age_groups |-> "age", genders |-> "gender",
     employment |-> "employment", remote |-> "remotework"]

\* record r of frame satisfies the constraint of field k, where the frame
\* has the column of k
AppPasses(r, frame, f, k) ==
    IF ~HasCol(frame, AppColumn[k]) THEN TRUE
    ELSE IF k = "age_groups"
    THEN \E i \in DOMAIN f[k].list :
            /\ f[k].list[i] = "Under 25" => IsNum(r["age"]) /\ r["age"].num < 25
            /\ f[k].list[i] = "25-34" => IsNum(r["age"]) /\ r["age"].num \in 25..34
            /\ f[k].list[i] = "35-44" => IsNum(r["age"]) /\ r["age"].num \in 35..44
            /\ f[k].list[i] = "45-54" => IsNum(r["age"]) /\ r["age"].num \in 45..54
            /\ f[k].list[i] = "55+" => IsNum(r["age"]) /\ r["age"].num >= 55
    ELSE \E i \in DOMAIN f[k].list : f[k].list[i] = r[AppColumn[k]]

PagePasses(r, frame, f, k) ==
    IF ~HasCol(frame, KeyColumn[k]) THEN TRUE
    ELSE IF k = "age_range"
    THEN IsNum(r["Age"]) /\ f[k][1] <= r["Age"].num /\ r["Age"].num <= f[k][2]
    ELSE r[KeyColumn[k]] = f[k]

FilterDataCalled == phase = "filter_data" /\ filtered # NotCalled
ApplyFiltersCalled == phase = "apply_filters" /\ filtered # NotCalled

\* C5: with only a country constraint active, the filter returns exactly
\* the input records whose country is an accepted one; a record without
\* country is not returned; of 3 German and 7 other records, filtering on
\* Germany returns the 3 German ones.
C5_CountryMembership ==
    /\ (FilterDataCalled /\ AppActive(filters) = {"countries"} /\ HasCol(df, "country")) =>
          /\ IsFrame(filtered)
          /\ KeptExactly(df.rows, Returned,
                         {r \in Range(df.rows) \cup Range(Returned) :
                             /\ r["country"] # NaN
                             /\ \E i \in DOMAIN filters["countries"].list :
                                   filters["countries"].list[i] = r["country"]})
          /\ (df.rows = ScenarioRows("country") /\ filters["countries"] = List(<<"Germany">>)) =>
                /\ Len(filtered.rows) = 3
                /\ \A i \in DOMAIN filtered.rows : filtered.rows[i]["country"] = "Germany"
    /\ (ApplyFiltersCalled /\ PageActive(filters) = {"country"} /\ HasCol(df, "Country")) =>
          /\ IsFrame(filtered)
          /\ KeptExactly(df.rows, filtered.rows,
                         {r \in Range(df.rows) \cup Range(filtered.rows) :
                             r["Country"] # NaN /\ r["Country"] = filters["country"]})
          /\ (df.rows = ScenarioRows("Country") /\ filters["country"] = "Germany") =>
                /\ Len(filtered.rows) = 3
                /\ \A i \in DOMAIN filtered.rows : filtered.rows[i]["Country"] = "Germany"

\* filter_data returned the three German records of Scenario 2
C5_Witness ==
    /\ FilterDataCalled
    /\ df.rows = ScenarioRows("country")
    /\ AppActive(filters) = {"countries"}
    /\ filters["countries"] = List(<<"Germany">>)
    /\ IsFrame(filtered)
    /\ Len(filtered.rows) = 3

\* C6: a field whose selection is empty or absent (None or the empty list
\* in filter_data, 'All' or no key in apply_filters) is not constrained:
\* every input record that satisfies the constraints of the other fields
\* is returned, and with no field constrained the filter returns all input
\* records, the ones with missing values too.
C6_EmptyIsNoConstraint ==
    /\ FilterDataCalled =>
          /\ AppActive(filters) = {} => (IsFrame(filtered) /\ Returned = df.rows)
          /\ IsFrame(filtered) =>
                \A i \in DOMAIN df.rows :
                   (\A k \in AppActive(filters) \cap AppRelevant(survey) :
                       AppPasses(df.rows[i], df, filters, k))
                      => Occurs(Returned, df.rows[i]) = Occurs(df.rows, df.rows[i])
    /\ ApplyFiltersCalled =>
          /\ PageActive(filters) = {} => (IsFrame(filtered) /\ filtered.rows = df.rows)
          /\ IsFrame(filtered) =>
                \A i \in DOMAIN df.rows :
                   (\A k \in PageActive(filters) : PagePasses(df.rows[i], df, filters, k))
                      => Occurs(filtered.rows, df.rows[i]) = Occurs(df.rows, df.rows[i])

\* filter_data, every selection the empty list, returned both records of a
\* frame one of whose records has no country
C6_Witness ==
    /\ FilterDataCalled
    /\ filters = [k \in AppKeys |-> List(<<>>)]
    /\ HasCol(df, "country")
    /\ Len(df.rows) = 2
    /\ \E i \in DOMAIN df.rows : df.rows[i]["country"] = NaN
    /\ IsFrame(filtered)
    /\ Len(filtered.rows) = 2

\* C7: a constraint on a field whose column the frame lacks does not raise
\* and changes nothing: the filter returns what it returns without that
\* constraint.
C7_AbsentColumnIgnored ==
    /\ FilterDataCalled =>
          \A k \in AppActive(filters) \cap AppRelevant(survey) :
             ~HasCol(df, AppColumn[k]) =>
                /\ IsFrame(filtered)
                /\ filtered = filter_data(df, [filters EXCEPT ![k] = None], survey)
    /\ ApplyFiltersCalled =>
          \A k \in PageActive(filters) :
             ~HasCol(df, KeyColumn[k]) =>
                /\ IsFrame(filtered)
                /\ filtered = apply_filters(df, [x \in (DOMAIN filters) \ {k} |-> filters[x]])

\* C9: with age_range = (lo, hi) and an Age column, apply_filters returns
\* only records with lo <= Age <= hi, none without Age, and, when age_range
\* is the only constraint, every input record with lo <= Age <= hi, the ones
\* with Age = lo or Age = hi included.
C9_AgeRangeInclusive ==
    (ApplyFiltersCalled /\ "age_range" \in DOMAIN filters /\ HasCol(df, "Age")) =>
        LET lo == filters["age_range"][1]
            hi == filters["age_range"][2]
            InRange(r) == IsNum(r["Age"]) /\ lo <= r["Age"].num /\ r["Age"].num <= hi
        IN /\ IsFrame(filtered)
           /\ \A i \in DOMAIN filtered.rows : InRange(filtered.rows[i])
           /\ PageActive(filters) = {"age_range"} =>
                 KeptExactly(df.rows, filtered.rows,
                             {r \in Range(df.rows) \cup Range(filtered.rows) : InRange(r)})

\* the record with Age = hi was kept and the record without Age dropped
C9_Witness ==
    /\ ApplyFiltersCalled
    /\ filters = [k \in {"age_range"} |-> <<20, 30>>]
    /\ df.rows = <<[Age |-> Num(30)], [Age |-> NaNum]>>
    /\ filtered.rows = <<[Age |-> Num(30)]>>

\* C10: filtering the filtered frame again with the same selections returns
\* the filtered frame: the same records and the same columns.
C10_Idempotent == refiltered # NotCalled => refiltered = filtered

\* filter_data was applied twice, dropped a record the first time and
\* derived the age_group column
C10_Witness ==
    /\ phase = "filter_data"
    /\ refiltered # NotCalled
    /\ HasCol(filtered, "age_group")
    /\ Len(filtered.rows) = 1
    /\ Len(df.rows) = 2

(***************************************************************************)
(* The tightening stage: the user narrows the sidebar selections, and the  *)
(* page filters the same frame under the selections before (looser) and    *)
(* after (filters).                                                        *)
(***************************************************************************)
\* selections of add_sidebar_filters that f narrows: each constrained field
\* of f cleared, widened or kept
LooserAppFilters(f) ==
    LET WiderChoice(key, selection) ==
            CASE key = "countries" -> List(<<"Germany", "France">>)
              [] key = "age_groups" -> List(age_groups)
              [] OTHER -> selection
    IN
    {[k \in AppKeys |-> IF k \in cleared THEN None
                        ELSE IF k \in widened THEN WiderChoice(k, f[k])
                        ELSE f[k]] :
        cleared \in SUBSET AppActive(f), widened \in SUBSET AppActive(f)}

\* selections of Filters.add_sidebar_filters that f narrows: each key of f
\* dropped, set to 'All', the age slider widened, or kept
LooserPageFilters(f) ==
    LET WiderAgeRange == <<20, 40>>
    IN
    UNION {{[k \in kept |-> IF k = "age_range" THEN (IF wide THEN WiderAgeRange ELSE f[k])
                            ELSE IF k \in alls THEN "All"
                            ELSE f[k]] :
               alls \in SUBSET (kept \ {"age_range"}), wide \in BOOLEAN} :
           kept \in SUBSET DOMAIN f}

\* three respondents aged 20 and 30 and one of unknown age: the slider of
\* the sidebar then spans (20, 30)
ScenarioMissingAge ==
    [columns |-> <<"Age">>, rows |-> <<[Age |-> Num(20)], [Age |-> NaNum], [Age |-> Num(30)]>>]

InitTighten ==
    /\ PagesIdle
    /\ IndexIdle
    /\ AgeIdle
    /\ AggIdle
    /\ InsightIdle
    /\ filtered = NotCalled
    /\ refiltered = NotCalled
    /\ loosened = NotCalled
    /\ \/ /\ phase = "filter_data"
          /\ survey \in {"mental_health", "stackoverflow"}
          /\ df \in AppFrames(survey)
          /\ filters \in AppFilters
          /\ \A k \in AppActive(filters) : AppColumn[k] \in Range(df.columns) \cup {"country"}
          /\ looser \in LooserAppFilters(filters)
       \/ /\ phase = "apply_filters"
          /\ survey = "none"
          /\ df \in PageFrames \cup {ScenarioMissingAge}
          /\ filters \in PageFilters
          /\ \A k \in DOMAIN filters : KeyColumn[k] \in Range(df.columns) \cup {"Country"}
          /\ looser \in LooserPageFilters(filters)

FilterDataLooser ==
    /\ phase = "filter_data"
    /\ loosened = NotCalled
    /\ loosened' = filter_data(df, looser, survey)
    /\ df' = filter_data_input(df, looser, survey)
    /\ UNCHANGED <<phase, ncalls, index, filters, survey, filtered, refiltered, ages,
                   app_groups, binned, cut_groups, looser, aggVars, insightVars, pageVars>>

ApplyFiltersLooser ==
    /\ phase = "apply_filters"
    /\ loosened = NotCalled
    /\ loosened' = apply_filters(df, looser)
    /\ UNCHANGED <<phase, df, ncalls, index, filters, survey, filtered, refiltered, ages,
                   app_groups, binned, cut_groups, looser, aggVars, insightVars, pageVars>>

NextTighten == FilterData \/ ApplyFilters \/ FilterDataLooser \/ ApplyFiltersLooser

SpecTighten == InitTighten /\ [][NextTighten]_vars

\* C11: when filters narrows looser (it constrains every field looser
\* constrains, with a subset of the accepted values or a sub-range of the
\* ages, and maybe more fields), every record the filter returns under
\* filters it returns under looser too, at least as often, so the narrower
\* result is no larger.
C11_Monotone ==
    (IsFrame(filtered) /\ loosened # NotCalled) =>
        /\ IsFrame(loosened)
        /\ \A i \in DOMAIN filtered.rows :
              Occurs(loosened.rows, filtered.rows[i]) >= Occurs(filtered.rows, filtered.rows[i])
        /\ Len(filtered.rows) <= Len(loosened.rows)

\* the narrower selections dropped a record that the looser ones, which
\* constrain a field themselves, kept
C11_Witness ==
    /\ IsFrame(filtered)
    /\ IsFrame(loosened)
    /\ Len(filtered.rows) = 1
    /\ Len(loosened.rows) = 2
    /\ Len(df.rows) = 2
    /\ \/ phase = "filter_data" /\ AppActive(looser) # {}
       \/ phase = "apply_filters" /\ PageActive(looser) # {}

\* filters selects all five age groups and looser none, the other fields
\* alike; both calls of filter_data returned
AllAgeGroupsAgainstNone ==
    /\ phase = "filter_data"
    /\ IsFrame(filtered)
    /\ IsFrame(loosened)
    /\ filters["age_groups"] = List(age_groups)
    /\ looser["age_groups"] = None
    /\ \A k \in AppKeys \ {"age_groups"} : looser[k] = filters[k]

\* filters has the age range from the lowest to the highest age of the
\* frame and looser has no age range, the other keys alike; both calls of
\* apply_filters returned
FullAgeRangeAgainstNone ==
    /\ phase = "apply_filters"
    /\ IsFrame(filtered)
    /\ IsFrame(loosened)
    /\ HasCol(df, "Age")
    /\ "age_range" \in DOMAIN filters
    /\ LET known == {df.rows[i]["Age"].num : i \in {j \in DOMAIN df.rows : IsNum(df.rows[j]["Age"])}}
       IN /\ known # {}
          /\ \A a \in known : filters["age_range"][1] <= a /\ a <= filters["age_range"][2]
          /\ filters["age_range"][1] \in known
          /\ filters["age_range"][2] \in known
    /\ DOMAIN looser = DOMAIN filters \ {"age_range"}
    /\ \A k \in DOMAIN looser : looser[k] = filters[k]

\* C26 as stated: an age constraint that selects every option excludes no
\* record, the records of unknown age included.
C26_FullAgeSelectionExcludesNone ==
    /\ AllAgeGroupsAgainstNone => filtered.rows = loosened.rows
    /\ FullAgeRangeAgainstNone => filtered.rows = loosened.rows

\* C26 as amended: an age constraint that selects every option excludes
\* the records of unknown age and no other record.
C26_FullAgeSelectionExcludesUnknown ==
    /\ AllAgeGroupsAgainstNone =>
          filtered.rows = IF HasCol(df, "age")
                          THEN SelectSeq(loosened.rows, LAMBDA r : r["age"] # NaNum)
                          ELSE loosened.rows
    /\ FullAgeRangeAgainstNone =>
          filtered.rows = SelectSeq(loosened.rows, LAMBDA r : r["Age"] # NaNum)

\* with the slider on the full range the page lost the respondent of
\* unknown age and kept the two others
C26_Witness ==
    /\ FullAgeRangeAgainstNone
    /\ Len(loosened.rows) = 3
    /\ Len(filtered.rows) = 2

\* C12: a call of the filter leaves the frame handed to it as it was: the
\* same records, the same values and the same columns; the derived
\* age_group column appears in the returned frame only.
C12_InputUnchanged ==
    [][/\ df' = df
       /\ refiltered' # refiltered => filtered' = filtered]_vars

\* filter_data derived age_group on its result, and the frame handed to it
\* has the age column and no age_group column
C12_Witness ==
    /\ FilterDataCalled
    /\ IsFrame(filtered)
    /\ HasCol(filtered, "age_group")
    /\ HasCol(df, "age")
    /\ ~HasCol(df, "age_group")
    /\ Len(df.rows) >= 1
    /\ AppActive(filters) = {}

(***************************************************************************)
(* The aggregate stage: the grouped statistics of a frame, by company      *)
(* size, and the country index of a frame that has the index columns.      *)
(***************************************************************************)
\* Scenario 1: ten records, six of them with treatment = Yes
ScenarioTreatment ==
    [columns |-> <<"no_employees", "treatment">>,
     rows |-> [i \in 1..10 |->
                 [no_employees |-> "6-25", treatment |-> IF i <= 6 THEN "Yes" ELSE "No"]]]

AggFrames ==
    FramesOver(<<"no_employees", "treatment">>, RowsOver2("no_employees", "treatment"))
    \cup FramesOver(<<"no_employees", "convertedcompyearly">>,
                    RowsOver2("no_employees", "convertedcompyearly"))
    \cup UNION {FramesOver(<<x>>, RowsOver1(x)) :
                   x \in {"no_employees", "treatment", "convertedcompyearly"}}
    \cup {ScenarioTreatment}
    \cup {MkFrame(IndexColumnOrder, Range(required_cols), rows) :
             rows \in SeqsUpTo(ComponentRows, MaxRows)}

\* the frame with the dtype pandas gives each of its columns: object for a
\* column of labels, int64 for a column of numbers, float64 for a column of
\* numbers that has a missing value or no record
Typed(frame) ==
    [columns |-> frame.columns, rows |-> frame.rows,
     dtypes |-> [c \in Range(frame.columns) |->
                   IF c \notin {"convertedcompyearly", "YearsCodingProf",
                                "mental_health_score", "Poor"}
                   THEN "object"
                   ELSE IF frame.rows = <<>>
                           \/ \E i \in DOMAIN frame.rows : frame.rows[i][c] = NaNum
                   THEN "float64"
                   ELSE "int64"]]

InitAggregate ==
    /\ PagesIdle
    /\ phase = "aggregate"
    /\ df \in AggFrames
    /\ IndexIdle
    /\ FilterIdle
    /\ AgeIdle
    /\ TightenIdle
    /\ AggIdle
    /\ InsightIdle

TreatmentRates ==
    /\ phase = "aggregate"
    /\ ~HasCol(df, "Country")
    /\ rates = NotCalled
    /\ rates' = calculate_treatment_rates_by_attribute(df, "no_employees")
    /\ UNCHANGED <<phase, df, ncalls, index, filters, survey, filtered, refiltered, ages,
                   app_groups, binned, cut_groups, tightenVars, comp_stats, group_stats, mh_insights,
                   comparison, insightVars, pageVars>>

CompensationStats ==
    /\ phase = "aggregate"
    /\ ~HasCol(df, "Country")
    /\ comp_stats = NotCalled
    /\ comp_stats' = calculate_compensation_stats_by_attribute(df, "no_employees")
    /\ UNCHANGED <<phase, df, ncalls, index, filters, survey, filtered, refiltered, ages,
                   app_groups, binned, cut_groups, tightenVars, rates, group_stats, mh_insights,
                   comparison, insightVars, pageVars>>

CompareGroups ==
    /\ phase = "aggregate"
    /\ ~HasCol(df, "Country")
    /\ group_stats = NotCalled
    /\ group_stats' = compare_groups(df, "no_employees", "convertedcompyearly")
    /\ UNCHANGED <<phase, df, ncalls, index, filters, survey, filtered, refiltered, ages,
                   app_groups, binned, cut_groups, tightenVars, rates, comp_stats, mh_insights,
                   comparison, insightVars, pageVars>>

MentalHealthInsights ==
    /\ phase = "aggregate"
    /\ ~HasCol(df, "Country")
    /\ mh_insights = NotCalled
    /\ mh_insights' = List(generate_mental_health_insights(df, NoFrame))
    /\ UNCHANGED <<phase, df, ncalls, index, filters, survey, filtered, refiltered, ages,
                   app_groups, binned, cut_groups, tightenVars, rates, comp_stats, group_stats,
                   comparison, insightVars, pageVars>>

ComparisonInsights ==
    /\ phase = "aggregate"
    /\ ~HasCol(df, "Country")
    /\ comparison = NotCalled
    /\ comparison' = List(generate_comparison_insights(Typed(df), "no_employees",
                                                       "convertedcompyearly"))
    /\ UNCHANGED <<phase, df, ncalls, index, filters, survey, filtered, refiltered, ages,
                   app_groups, binned, cut_groups, tightenVars, rates, comp_stats, group_stats,
                   mh_insights, insightVars, pageVars>>

IndexByCountry ==
    /\ phase = "aggregate"
    /\ HasCol(df, "Country")
    /\ ncalls = 0
    /\ \E seed \in 0..(RngMod - 1) :
          index' = create_country_mental_health_index(df, seed)
    /\ ncalls' = 1
    /\ UNCHANGED <<phase, df, filters, survey, filtered, refiltered, ages, app_groups, binned, cut_groups,
                   stageVars>>

NextAggregate ==
    \/ TreatmentRates
    \/ CompensationStats
    \/ CompareGroups
    \/ MentalHealthInsights
    \/ ComparisonInsights
    \/ IndexByCountry

SpecAggregate == InitAggregate /\ [][NextAggregate]_vars

\* the records of df whose company size is key
Members(key) == {i \in DOMAIN df.rows : df.rows[i]["no_employees"] = key}

\* C13: a rate of value is 100 * (records of the group whose field equals
\* the target) / (all records of the group, the ones whose field is missing
\* too) and lies in [0, 100]: the per-group treatment rate of
\* calculate_treatment_rates_by_attribute, and the treatment percentage of
\* generate_mental_health_insights over the whole frame; ten records with
\* six Yes give 60.0.
C13_RateOfValue ==
    /\ (phase = "aggregate" /\ rates # NotCalled
        /\ HasCol(df, "no_employees") /\ HasCol(df, "treatment")) =>
          /\ \A k \in DOMAIN rates.rows :
                LET key == rates.rows[k]["no_employees"]
                    yes == {i \in Members(key) : df.rows[i]["treatment"] = "Yes"}
                    rate == rates.rows[k]["treatment_rate"]
                IN /\ rate = Frac(100 * Cardinality(yes), Cardinality(Members(key)))
                   /\ ~FLess(rate, Frac(0, 1))
                   /\ ~FLess(Frac(100, 1), rate)
          /\ df = ScenarioTreatment =>
                rates.rows = <<[c \in {"no_employees", "treatment_rate"} |->
                                  IF c = "no_employees" THEN "6-25" ELSE Frac(60, 1)]>>
    /\ (phase = "aggregate" /\ mh_insights # NotCalled
        /\ HasCol(df, "treatment") /\ df.rows # <<>>) =>
          LET yes == {i \in DOMAIN df.rows : df.rows[i]["treatment"] = "Yes"}
          IN /\ mh_insights.list # <<>>
             /\ mh_insights.list[1] =
                   Statement("treatment_pct",
                             <<Fmt(Frac(100 * Cardinality(yes), Len(df.rows)), 1)>>)
             /\ df = ScenarioTreatment =>
                   mh_insights.list[1].fields[1] = [places |-> 1, scaled |-> 600]

\* the three grouped tables of value column col agree with the claim on
\* the group of row r: the count is the number of all records of the group
\* and the mean is taken over the values that are not missing
CountsAll(key, count) == count = Cardinality(Members(key))

MeanOfPresent(key, mean) ==
    LET present == {i \in Members(key) : IsNum(df.rows[i]["convertedcompyearly"])}
        total == SumInts([k \in 1..Len(df.rows) |->
                            IF k \in present THEN df.rows[k]["convertedcompyearly"].num ELSE 0])
    IN IF present = {} THEN mean = NaNum ELSE mean = Frac(total, Cardinality(present))

NoMissingKey == \A i \in DOMAIN df.rows : df.rows[i]["no_employees"] # NaN

\* C14: in compare_groups, calculate_compensation_stats_by_attribute and
\* the 'based on N data points' of generate_comparison_insights the count
\* of a group is the number of all its records, the ones without a value
\* included, while the mean skips the missing values; so when no record
\* lacks the group field the counts add up to the number of records.
C14_CountsAllRecords ==
    (phase = "aggregate" /\ HasCol(df, "no_employees") /\ HasCol(df, "convertedcompyearly")) =>
        /\ group_stats # NotCalled =>
              /\ \A k \in DOMAIN group_stats.rows :
                    /\ CountsAll(group_stats.rows[k]["no_employees"], group_stats.rows[k]["Count"])
                    /\ MeanOfPresent(group_stats.rows[k]["no_employees"],
                                     group_stats.rows[k]["Mean"])
              /\ NoMissingKey =>
                    SumInts([k \in DOMAIN group_stats.rows |-> group_stats.rows[k]["Count"]])
                       = Len(df.rows)
        /\ comp_stats # NotCalled =>
              /\ \A k \in DOMAIN comp_stats.rows :
                    /\ CountsAll(comp_stats.rows[k]["no_employees"], comp_stats.rows[k]["count"])
                    /\ MeanOfPresent(comp_stats.rows[k]["no_employees"],
                                     comp_stats.rows[k]["mean"])
              /\ NoMissingKey =>
                    SumInts([k \in DOMAIN comp_stats.rows |-> comp_stats.rows[k]["count"]])
                       = Len(df.rows)
        /\ comparison # NotCalled =>
              \A k \in DOMAIN comparison.list :
                 comparison.list[k].template = "category_line" =>
                    CountsAll(comparison.list[k].fields[1].name,
                              comparison.list[k].fields[3].int)

\* C15: the records whose group field is missing form a group of their own:
\* every record of the frame belongs to exactly one group of the table
\* compare_groups returns, and to exactly one country of the index.
C15_MissingKeyIsAGroup ==
    /\ (phase = "aggregate" /\ group_stats # NotCalled
        /\ HasCol(df, "no_employees") /\ HasCol(df, "convertedcompyearly")) =>
          \A i \in DOMAIN df.rows :
             Cardinality({k \in DOMAIN group_stats.rows :
                             group_stats.rows[k]["no_employees"] = df.rows[i]["no_employees"]}) = 1
    /\ (phase = "aggregate" /\ ncalls > 0) =>
          \A i \in DOMAIN df.rows :
             Cardinality({k \in DOMAIN index.rows :
                             index.rows[k].Country = df.rows[i]["Country"]}) = 1

(***************************************************************************)
(* The insight stage: a page hands a frame to one of the three generators. *)
(***************************************************************************)
\* a frame of the columns cols with up to n records
FramesUpTo(cols, n) ==
    LET rowset == IF Len(cols) = 1 THEN RowsOver1(cols[1]) ELSE RowsOver2(cols[1], cols[2])
    IN {[columns |-> cols, rows |-> rows] : rows \in SeqsUpTo(rowset, n)}

\* the frame of the points (xs[i], ys[i])
PointsFrame(xs, ys) ==
    [columns |-> <<"YearsCodingProf", "mental_health_score">>,
     rows |-> [i \in DOMAIN xs |->
                 [YearsCodingProf |-> Num(xs[i]), mental_health_score |-> Num(ys[i])]]]

\* frames whose correlation is exactly 0.7, 0.3, -0.7, -0.3, and 0.75
\* (Scenario 4), -0.75
BandFrames ==
    {PointsFrame(<<0, 1, 2, 3, 4>>, <<0, 1, 3, 4, 2>>),
     PointsFrame(<<0, 1, 3, 4>>, <<0, 3, 4, 1>>),
     PointsFrame(<<0, 1, 2, 3, 4>>, <<2, 4, 3, 1, 0>>),
     PointsFrame(<<0, 1, 3, 4>>, <<1, 4, 3, 0>>),
     PointsFrame(<<0, 0, 0, 2, 3>>, <<0, 1, 1, 1, 2>>),
     PointsFrame(<<0, 0, 0, 2, 3>>, <<1, 1, 2, 1, 0>>)}

\* the points of a frame, each with a company size
GroupedFrames ==
    {[columns |-> <<"YearsCodingProf", "mental_health_score", "no_employees">>,
      rows |-> rows] :
        rows \in SeqsUpTo([YearsCodingProf : {Num(0), Num(1)},
                           mental_health_score : Cells("mental_health_score"),
                           no_employees : Cells("no_employees")], MaxRecords)}

TrendCalls ==
    LET Args(x, y, g) == [generator |-> "trend", x_col |-> x, y_col |-> y, group_col |-> g]
        xy == FramesUpTo(<<"YearsCodingProf", "mental_health_score">>, MaxPoints)
                 \cup BandFrames
    IN {[frame |-> f, args |-> Args("YearsCodingProf", "mental_health_score", g)] :
           f \in xy \cup FramesUpTo(<<"YearsCodingProf">>, 1)
                    \cup FramesUpTo(<<"mental_health_score">>, 1)
                    \cup {NoFrame},
           g \in {None, Name("no_employees")}}
       \cup {[frame |-> f, args |-> Args("YearsCodingProf", "mental_health_score", g)] :
                f \in GroupedFrames, g \in {None, Name("no_employees")}}
       \cup {[frame |-> f, args |-> Args("age_group", "mental_health_score", None)] :
                f \in FramesUpTo(<<"age_group", "mental_health_score">>, MaxRecords)}
       \cup {[frame |-> f, args |-> Args("YearsCodingProf", "work_interfere", None)] :
                f \in FramesUpTo(<<"YearsCodingProf", "work_interfere">>, MaxRecords)}
       \cup {[frame |-> f, args |-> Args("no_employees", "work_interfere", Name("no_employees"))] :
                f \in FramesUpTo(<<"no_employees", "work_interfere">>, MaxRecords)}

\* one record per category, the first g categories
RankedFrames ==
    LET majors == <<"A", "B", "C", "D", "E", "F", "G">>
    IN UNION {{[columns |-> <<"UndergradMajor", "Poor">>,
                rows |-> [i \in 1..g |-> [UndergradMajor |-> majors[i], Poor |-> values[i]]]] :
                 values \in [1..g -> {Num(2), Num(6)}]} :
              g \in 0..Min(MaxGroups, Len(majors))}

ComparisonCalls ==
    LET Args(c, v) == [generator |-> "comparison", category_col |-> c, value_col |-> v]
    IN {[frame |-> f, args |-> Args("UndergradMajor", "Poor")] :
           f \in RankedFrames \cup FramesUpTo(<<"UndergradMajor", "Poor">>, MaxRecords)
                 \cup FramesUpTo(<<"UndergradMajor">>, 1) \cup FramesUpTo(<<"Poor">>, 1)
                 \cup {NoFrame}}
       \cup {[frame |-> f, args |-> Args("UndergradMajor", "MentalHealth")] :
                f \in FramesUpTo(<<"UndergradMajor", "MentalHealth">>, MaxPoints)}

\* a survey frame with all the columns the mental health insights read
FullSurvey(order, rows) == [columns |-> order, rows |-> rows]

MentalHealthCalls ==
    LET Args(so) == [generator |-> "mental_health", stackoverflow_df |-> so]
        mh == UNION {FramesUpTo(cols, MaxRecords) :
                        cols \in {<<"treatment">>, <<"work_interfere">>, <<"no_employees">>,
                                  <<"no_employees", "mental_health_consequence">>,
                                  <<"remote_work", "work_interfere">>}}
        so == UNION {FramesUpTo(cols, MaxRecords) :
                        cols \in {<<"MentalHealth">>, <<"DevType", "MentalHealth">>,
                                  <<"JobSatisfaction", "MentalHealth">>}}
        full_mh == FullSurvey(<<"treatment", "work_interfere", "no_employees",
                                "mental_health_consequence", "remote_work">>,
                      <<[treatment |-> "Yes", work_interfere |-> "Often", no_employees |-> "1-5",
                         mental_health_consequence |-> "No", remote_work |-> "Yes"],
                        [treatment |-> "No", work_interfere |-> "Never", no_employees |-> "6-25",
                         mental_health_consequence |-> "Yes", remote_work |-> "No"]>>)
        full_so == FullSurvey(<<"MentalHealth", "DevType", "JobSatisfaction">>,
                      <<[MentalHealth |-> "Excellent", DevType |-> "Back-end",
                         JobSatisfaction |-> "Satisfied"],
                        [MentalHealth |-> "Poor", DevType |-> "Front-end",
                         JobSatisfaction |-> "Dissatisfied"]>>)
    IN {[frame |-> f, args |-> Args(NoFrame)] : f \in mh \cup {NoFrame}}
       \cup {[frame |-> NoFrame, args |-> Args(f)] : f \in so}
       \cup {[frame |-> full_mh, args |-> Args(full_so)]}
       \cup {[frame |-> FullSurvey(full_mh.columns, <<>>),
               args |-> Args(FullSurvey(full_so.columns, <<>>))]}

InitInsight ==
    /\ PagesIdle
    /\ phase = "insight"
    /\ IndexIdle
    /\ FilterIdle
    /\ AgeIdle
    /\ TightenIdle
    /\ AggIdle
    /\ insights = NotCalled
    /\ formatted = NotCalled
    /\ \E c \in TrendCalls \cup ComparisonCalls \cup MentalHealthCalls :
          df = c.frame /\ call = c.args

GenerateTrend ==
    /\ phase = "insight"
    /\ call.generator = "trend"
    /\ insights = NotCalled
    /\ insights' = List(generate_trend_insights(Typed(df), call.x_col, call.y_col,
                                                call.group_col))
    /\ UNCHANGED <<phase, df, ncalls, index, filters, survey, filtered, refiltered, ages,
                   app_groups, binned, cut_groups, tightenVars, aggVars, call, formatted, pageVars>>

GenerateComparison ==
    /\ phase = "insight"
    /\ call.generator = "comparison"
    /\ insights = NotCalled
    /\ insights' = List(generate_comparison_insights(Typed(df), call.category_col,
                                                     call.value_col))
    /\ UNCHANGED <<phase, df, ncalls, index, filters, survey, filtered, refiltered, ages,
                   app_groups, binned, cut_groups, tightenVars, aggVars, call, formatted, pageVars>>

GenerateMentalHealth ==
    /\ phase = "insight"
    /\ call.generator = "mental_health"
    /\ insights = NotCalled
    /\ insights' = List(generate_mental_health_insights(df, call.stackoverflow_df))
    /\ UNCHANGED <<phase, df, ncalls, index, filters, survey, filtered, refiltered, ages,
                   app_groups, binned, cut_groups, tightenVars, aggVars, call, formatted, pageVars>>

\* st.markdown(Insights.format_insights(insights)), as the pages do with
\* the list a generator returned
FormatInsights ==
    /\ phase = "insight"
    /\ insights # NotCalled
    /\ formatted = NotCalled
    /\ formatted' = format_insights(insights.list)
    /\ UNCHANGED <<phase, df, ncalls, index, filters, survey, filtered, refiltered, ages,
                   app_groups, binned, cut_groups, tightenVars, aggVars, call, insights,
                   pageVars>>

NextInsight == GenerateTrend \/ GenerateComparison \/ GenerateMentalHealth \/ FormatInsights

SpecInsight == InitInsight /\ [][NextInsight]_vars

(***************************************************************************)
(* Properties of the insight stage.                                        *)
(***************************************************************************)
Generated(generator) ==
    phase = "insight" /\ call.generator = generator /\ insights # NotCalled

Templates == [k \in DOMAIN insights.list |-> insights.list[k].template]

TrendTemplates ==
    {"strong_positive", "moderate_positive", "strong_negative", "moderate_negative",
     "no_clear_trend"}

\* both columns of the trend call are in the frame and numeric
BothNumeric ==
    /\ HasCol(df, call.x_col)
    /\ HasCol(df, call.y_col)
    /\ Typed(df).dtypes[call.x_col] \in {"float64", "int64"}
    /\ Typed(df).dtypes[call.y_col] \in {"float64", "int64"}

\* where the correlation of the two columns lies with respect to
\* sign * tenths / 10: beyond it (farther from 0), on it, or short of it
Position(sign, tenths) ==
    LET c == Corr(df, call.x_col, call.y_col)
        lhs == 100 * c.cov * c.cov
        rhs == tenths * tenths * c.vx * c.vy
    IN IF c = NaNum THEN "undefined"
       ELSE IF c.cov * sign <= 0 THEN "short"
       ELSE IF lhs > rhs THEN "beyond"
       ELSE IF lhs = rhs THEN "on"
       ELSE "short"

LastTemplate == Templates[Len(Templates)]

\* C16 as stated: a correlation on a band boundary is put in the band of
\* higher magnitude: strong positive at exactly 0.7, moderate positive at
\* 0.3, strong negative at -0.7, moderate negative at -0.3.
C16_BoundaryInHigherBand ==
    (Generated("trend") /\ BothNumeric) =>
        /\ Position(1, 7) = "on" => LastTemplate = "strong_positive"
        /\ Position(1, 3) = "on" => LastTemplate = "moderate_positive"
        /\ Position(0 - 1, 7) = "on" => LastTemplate = "strong_negative"
        /\ Position(0 - 1, 3) = "on" => LastTemplate = "moderate_negative"

\* C16 as amended: the comparisons are strict, so a correlation on a band
\* boundary is put in the band of lower magnitude: moderate positive at
\* exactly 0.7, no clear trend at 0.3, moderate negative at -0.7, no clear
\* trend at -0.3.
C16_BoundaryInLowerBand ==
    (Generated("trend") /\ BothNumeric) =>
        /\ Position(1, 7) = "on" => LastTemplate = "moderate_positive"
        /\ Position(1, 3) = "on" => LastTemplate = "no_clear_trend"
        /\ Position(0 - 1, 7) = "on" => LastTemplate = "moderate_negative"
        /\ Position(0 - 1, 3) = "on" => LastTemplate = "no_clear_trend"

\* a trend call on a frame whose correlation is exactly 0.7 returned the
\* moderate positive statement
C16_Witness ==
    /\ Generated("trend")
    /\ BothNumeric
    /\ Position(1, 7) = "on"
    /\ LastTemplate = "moderate_positive"

\* C17: with both columns numeric the list holds exactly one trend
\* statement, and it is the last one: strong positive above 0.7, moderate
\* positive strictly between 0.3 and 0.7, strong negative below -0.7,
\* moderate negative strictly between -0.7 and -0.3, no clear trend
\* strictly between -0.3 and 0.3 and when the correlation is undefined.
C17_OneTrendStatement ==
    (Generated("trend") /\ BothNumeric) =>
        /\ Cardinality({k \in DOMAIN Templates : Templates[k] \in TrendTemplates}) = 1
        /\ LastTemplate \in TrendTemplates
        /\ Position(1, 7) = "beyond" => LastTemplate = "strong_positive"
        /\ (Position(1, 3) = "beyond" /\ Position(1, 7) = "short") =>
              LastTemplate = "moderate_positive"
        /\ Position(0 - 1, 7) = "beyond" => LastTemplate = "strong_negative"
        /\ (Position(0 - 1, 3) = "beyond" /\ Position(0 - 1, 7) = "short") =>
              LastTemplate = "moderate_negative"
        /\ (Position(1, 3) \in {"short", "undefined"}
            /\ Position(0 - 1, 3) \in {"short", "undefined"}) =>
              LastTemplate = "no_clear_trend"

\* the categories the comparison call groups by
Categories == {df.rows[i][call.category_col] : i \in DOMAIN df.rows} \ {NaN}

\* the positions of the category lines before (top) and after the second heading
TopLines ==
    {k \in DOMAIN Templates :
        /\ Templates[k] = "category_line"
        /\ \A j \in 1..k : Templates[j] # "bottom_heading"}

BottomLines ==
    {k \in DOMAIN Templates :
        /\ Templates[k] = "category_line"
        /\ \E j \in 1..k : Templates[j] = "bottom_heading"}

NoErrorInsight ==
    \A k \in DOMAIN Templates : Templates[k] \notin {"error_insights", "error_comparison"}

RanksThree ==
    /\ NoErrorInsight
    /\ Cardinality(TopLines) = Min(3, Cardinality(Categories))
    /\ Cardinality(BottomLines) = Min(3, Cardinality(Categories))

BothPresent == HasCol(df, call.category_col) /\ HasCol(df, call.value_col)

\* C18 as stated: with g groups the comparison reports min(3, g) top and
\* min(3, g) bottom categories, and no error, whatever g is.
C18_ThreeTopThreeBottom == (Generated("comparison") /\ BothPresent) => RanksThree

\* C18 as amended: it does so when the value column is numeric (float64 or
\* int64); for a value column of another dtype it returns the empty list.
C18_ThreeTopThreeBottomOfNumeric ==
    (Generated("comparison") /\ BothPresent) =>
        IF Typed(df).dtypes[call.value_col] \in {"float64", "int64"}
        THEN RanksThree
        ELSE insights.list = <<>>

\* four categories, three top lines and three bottom lines
C18_Witness ==
    /\ Generated("comparison")
    /\ BothPresent
    /\ Cardinality(Categories) = 4
    /\ Cardinality(TopLines) = 3
    /\ Cardinality(BottomLines) = 3

\* the categories named by the category lines at the positions ks
CategoriesAt(ks) == {insights.list[k].fields[1].name : k \in ks}

\* C27: no category is both in the list of the top performing categories
\* and in the list of the categories with lowest performance, whatever the
\* number of groups.
C27_TopAndBottomDisjoint ==
    (Generated("comparison") /\ BothPresent) =>
        CategoriesAt(TopLines) \cap CategoriesAt(BottomLines) = {}

\* C27 as amended: with g groups and a numeric value column, the two lists
\* share max(0, 2 * min(3, g) - g) categories: all of them up to three
\* groups, two with four groups, one with five, none from six groups on.
C27_TopAndBottomShare ==
    (Generated("comparison") /\ BothPresent
     /\ Typed(df).dtypes[call.value_col] \in {"float64", "int64"}) =>
        Cardinality(CategoriesAt(TopLines) \cap CategoriesAt(BottomLines))
           = Max(0, 2 * Min(3, Cardinality(Categories)) - Cardinality(Categories))

\* six groups: three in each list and none in both
C27_Witness ==
    /\ Generated("comparison")
    /\ BothPresent
    /\ Cardinality(Categories) = 6
    /\ Cardinality(CategoriesAt(TopLines)) = 3
    /\ Cardinality(CategoriesAt(BottomLines)) = 3
    /\ CategoriesAt(TopLines) \cap CategoriesAt(BottomLines) = {}

\* the statement holds a number formatted to one or two decimals ('nan' or
\* 'inf' where the statistic is undefined)
HasNumber(statement) ==
    \E k \in DOMAIN statement.fields :
       \/ "places" \in DOMAIN statement.fields[k] /\ statement.fields[k].places \in {1, 2}
       \/ "text" \in DOMAIN statement.fields[k]

\* the statements that assert a trend strength, a variance level, a
\* highest or lowest ranking
StrengthTemplates == TrendTemplates \cup {"high_variance", "low_variance"}

RankingTemplates ==
    {"group_highest", "group_lowest", "category_line", "size_lowest", "size_highest",
     "role_lowest", "role_highest"}

\* C19 as stated: every statement of a trend strength, a variance level or
\* a ranking holds the number it rests on.
C19_EveryClaimHasItsNumber ==
    (phase = "insight" /\ insights # NotCalled) =>
        \A k \in DOMAIN insights.list :
           Templates[k] \in StrengthTemplates \cup RankingTemplates
                            \cup {"best_job_satisfaction"}
              => HasNumber(insights.list[k])

\* C19 as amended: the statements of a highest or lowest average, rate or
\* category mean hold that number; the statements of a trend strength, of a
\* variance level and of the best job satisfaction hold no number.
C19_RankingsHaveTheirNumber ==
    (phase = "insight" /\ insights # NotCalled) =>
        \A k \in DOMAIN insights.list :
           /\ Templates[k] \in RankingTemplates => HasNumber(insights.list[k])
           /\ Templates[k] \in StrengthTemplates \cup {"best_job_satisfaction"}
                 => ~HasNumber(insights.list[k])

\* the mental health insights ranked two company sizes, each with its rate
C19_Witness ==
    /\ Generated("mental_health")
    /\ \E k \in DOMAIN Templates : Templates[k] = "size_lowest"
    /\ \E k \in DOMAIN Templates : Templates[k] = "best_job_satisfaction"

SentinelTemplates == {"insufficient_data", "insufficient_comparison_data"}

\* the columns each analysis of the mental health insights needs, of the
\* mental health frame and of the Stack Overflow frame
AnalysisColumns ==
    [treatment_pct |-> <<{"treatment"}, {}>>,
     interfere_pct |-> <<{"work_interfere"}, {}>>,
     size_lowest |-> <<{"no_employees", "mental_health_consequence"}, {}>>,
     size_highest |-> <<{"no_employees", "mental_health_consequence"}, {}>>,
     remote_less |-> <<{"remote_work", "work_interfere"}, {}>>,
     remote_more |-> <<{"remote_work", "work_interfere"}, {}>>,
     role_lowest |-> <<{}, {"MentalHealth", "DevType"}>>,
     role_highest |-> <<{}, {"MentalHealth", "DevType"}>>,
     best_job_satisfaction |-> <<{}, {"JobSatisfaction", "MentalHealth"}>>]

\* a column the call needs is not in the frame
ColumnAbsent ==
    CASE call.generator = "trend" -> ~HasCol(df, call.x_col) \/ ~HasCol(df, call.y_col)
      [] call.generator = "comparison" -> ~BothPresent
      [] call.generator = "mental_health" ->
            \E a \in DOMAIN AnalysisColumns :
               \/ ~(AnalysisColumns[a][1] \subseteq Range(df.columns))
               \/ ~(AnalysisColumns[a][2] \subseteq Range(call.stackoverflow_df.columns))

\* C20 as stated: when a column an analysis needs is absent, the generator
\* returns the one sentinel statement of that analysis (for the mental
\* health insights: one sentinel for each analysis that lacks a column).
C20_SentinelWhenAbsent ==
    (phase = "insight" /\ insights # NotCalled /\ ColumnAbsent) =>
        IF call.generator \in {"trend", "comparison"}
        THEN Len(Templates) = 1 /\ Templates[1] \in SentinelTemplates
        ELSE \E k \in DOMAIN Templates : Templates[k] \in SentinelTemplates

\* C20 as amended: generate_trend_insights and
\* generate_comparison_insights return the one sentinel statement;
\* generate_mental_health_insights returns no sentinel: it leaves out the
\* statements of every analysis that lacks a column, down to the empty
\* list, and adds no error insight.
C20_SentinelOrSilence ==
    (phase = "insight" /\ insights # NotCalled /\ ColumnAbsent) =>
        IF call.generator \in {"trend", "comparison"}
        THEN Len(Templates) = 1 /\ Templates[1] \in SentinelTemplates
        ELSE /\ \A k \in DOMAIN Templates :
                   /\ Templates[k] \in DOMAIN AnalysisColumns
                   /\ AnalysisColumns[Templates[k]][1] \subseteq Range(df.columns)
                   /\ AnalysisColumns[Templates[k]][2]
                         \subseteq Range(call.stackoverflow_df.columns)
             /\ (df.columns = <<>> /\ call.stackoverflow_df.columns = <<>>)
                   => insights.list = <<>>

\* the positions of the remote-work statement in the returned list
RemoteStatements ==
    {k \in DOMAIN insights.list : Templates[k] \in {"remote_less", "remote_more"}}

\* the records of df whose remote_work is key, and those of them whose work
\* interference is 'Often' or 'Sometimes'
RemoteGroupSize(key) == Len(GroupBy(df, "remote_work", key))
RemoteGroupInterfere(key) ==
    CountIn(GroupBy(df, "remote_work", key), "work_interfere", {"Often", "Sometimes"})

\* rate(a) - rate(b) of work interference, as a numerator over the product
\* of the two group sizes
RateGap(a, b) ==
    RemoteGroupInterfere(a) * RemoteGroupSize(b) - RemoteGroupInterfere(b) * RemoteGroupSize(a)

\* C29: the remote-work statement says 'less' only when the remote rate is
\* strictly lower than the non-remote rate and 'more' only when it is
\* strictly higher; its percentage is the absolute difference of the two
\* rates; it is emitted only when both groups are non-empty.
C29_RemoteStatementDirection ==
    Generated("mental_health") =>
        \A k \in RemoteStatements :
           /\ HasCol(df, "remote_work") /\ HasCol(df, "work_interfere")
           /\ RemoteGroupSize("Yes") > 0 /\ RemoteGroupSize("No") > 0
           /\ Templates[k] = "remote_less" => RateGap("Yes", "No") < 0
           /\ Templates[k] = "remote_more" => RateGap("Yes", "No") > 0
           /\ insights.list[k].fields =
                 <<Fmt(Frac(100 * Abs(RateGap("Yes", "No")),
                            RemoteGroupSize("Yes") * RemoteGroupSize("No")), 1)>>

\* the insights among the first i of the list that format_insights numbers
NumberedUpTo(i) ==
    {j \in 1..i : FirstChar(insights.list[j]) = "other"}

\* C30: the k-th insight that is neither a bullet nor newline-prefixed is
\* rendered with the number k, whatever lines are interleaved; an empty list
\* is rendered as 'No insights available.'.
C30_NumberedConsecutively ==
    (phase = "insight" /\ formatted # NotCalled) =>
        IF insights.list = <<>>
        THEN formatted = Name("No insights available.")
        ELSE /\ "lines" \in DOMAIN formatted
             /\ DOMAIN formatted.lines = DOMAIN insights.list
             /\ \A i \in DOMAIN insights.list :
                   /\ formatted.lines[i].insight = insights.list[i]
                   /\ ("number" \in DOMAIN formatted.lines[i])
                         <=> FirstChar(insights.list[i]) = "other"
                   /\ FirstChar(insights.list[i]) = "other"
                         => formatted.lines[i].number = Cardinality(NumberedUpTo(i))

\* the frames of the call hold every column it reads and zero records
EmptyWithColumns ==
    /\ ~ColumnAbsent
    /\ df.rows = <<>>
    /\ call.generator = "mental_health" => call.stackoverflow_df.rows = <<>>

\* C21: on a dataset of zero records that has every required column, each
\* insight generator returns exactly one 'insufficient data' statement.
C21_EmptyGivesSentinel ==
    (phase = "insight" /\ insights # NotCalled /\ EmptyWithColumns) =>
        Len(Templates) = 1 /\ Templates[1] \in SentinelTemplates

\* the trend call runs into a computation that fails: the group analysis
\* finds no group to index, or takes the mean of text, or the correlation
\* is asked of a numeric column and a column of text
TrendFails ==
    /\ call.generator = "trend"
    /\ HasCol(df, call.x_col)
    /\ HasCol(df, call.y_col)
    /\ LET object_y == Typed(df).dtypes[call.y_col] = "object"
           numeric_x == Typed(df).dtypes[call.x_col] \in {"float64", "int64"}
           by == call.group_col.name
           grouped == call.group_col # None /\ HasCol(df, by)
       IN \/ grouped /\ \A i \in DOMAIN df.rows : df.rows[i][by] = NaN
          \/ grouped /\ object_y
                /\ \E i \in DOMAIN df.rows :
                       df.rows[i][by] # NaN /\ df.rows[i][call.y_col] # NaN
          \/ numeric_x /\ object_y
                /\ \E i \in DOMAIN df.rows : df.rows[i][call.y_col] # NaN

IsErrorInsight(statement) ==
    /\ statement.template \in {"error_insights", "error_comparison", "error_mental_health"}
    /\ Len(statement.fields) = 1
    /\ "reason" \in DOMAIN statement.fields[1]

\* C22: every call of a generator returns a list of statements, never an
\* exception; when a computation of the call fails, the list ends with an
\* error insight that holds the failure reason.
C22_FailureBecomesInsight ==
    (phase = "insight" /\ insights # NotCalled) =>
        /\ DOMAIN insights = {"list"}
        /\ \A k \in DOMAIN insights.list :
              DOMAIN insights.list[k] = {"template", "fields"}
        /\ TrendFails =>
              /\ insights.list # <<>>
              /\ IsErrorInsight(insights.list[Len(insights.list)])

\* a correlation between years of coding and a column of text failed and
\* the list ends with the error insight, after nothing else
C22_Witness ==
    /\ Generated("trend")
    /\ call.group_col = None
    /\ TrendFails
    /\ Len(insights.list) = 1
    /\ IsErrorInsight(insights.list[1])

\* a trend call on a frame without the y column returned the sentinel alone
C20_Witness ==
    /\ Generated("trend")
    /\ HasCol(df, call.x_col)
    /\ ~HasCol(df, call.y_col)
    /\ Len(df.rows) = 1
    /\ Templates = <<"insufficient_data">>

(***************************************************************************)
(* The pages: what a page script computes from the filtered frame.         *)
(***************************************************************************)
\* country_stats.sort_values('Mental Health Index', ascending): the
\* countries in that order, equal indices in the order they had
CountriesByIndex(country_stats, ascending) ==
    LET rows == country_stats.rows
        Before(i, j) ==
            IF rows[i].MentalHealthIndex = rows[j].MentalHealthIndex THEN i < j
            ELSE IF ascending THEN rows[i].MentalHealthIndex < rows[j].MentalHealthIndex
            ELSE rows[i].MentalHealthIndex > rows[j].MentalHealthIndex
        order == SortSeq([i \in DOMAIN rows |-> i], Before)
    IN [k \in DOMAIN rows |-> rows[order[k]]]

\* pages/3_Global_Perspective.py lines 50-52: .iloc[0] of the sorted index;
\* on an index without rows the positional indexer raises IndexError and
\* the script stops there
TopCountryMetrics(country_stats) ==
    LET sorted == CountriesByIndex(country_stats, FALSE)
    IN IF sorted = <<>> THEN Raised("IndexError")
       ELSE [top_country |-> Name(sorted[1].Country)]

\* pages/4_Deep_Dive_Visuals.py lines 304-308: the three countries at each
\* end of the index, joined into the two ranking insights
RankingInsights(country_stats) ==
    LET top == HeadRows(CountriesByIndex(country_stats, FALSE), 3)
        bottom == HeadRows(CountriesByIndex(country_stats, TRUE), 3)
    IN [top_countries |-> List([k \in DOMAIN top |-> top[k].Country]),
        bottom_countries |-> List([k \in DOMAIN bottom |-> bottom[k].Country])]

\* app.py lines 160-174: the three Stack Overflow metrics of the overview
OverviewMetrics(filtered_so) ==
    IF ~IsFrame(filtered_so) THEN filtered_so
    ELSE IF ~HasCol(filtered_so, "country") \/ ~HasCol(filtered_so, "convertedcompyearly")
    THEN Raised("KeyError")
    ELSE [respondents |-> [int |-> Len(filtered_so.rows)],
          countries |-> [int |-> Cardinality(Range(Column(filtered_so.rows, "country"))
                                                \ {NaN})],
          avg_comp |-> Fmt(FMean(Values(Column(filtered_so.rows, "convertedcompyearly"))), 2)]

\* a <= b; every comparison with the missing value is False
FLeq(a, b) == a # NaNum /\ b # NaNum /\ ~FLess(b, a)

\* Series.quantile(num / den): linear interpolation between the two order
\* statistics around position (n - 1) * num / den of the sorted values, the
\* missing values skipped; the missing value when no value is left
Quantile(cells, num, den) ==
    LET nums == SelectSeq(cells, IsNum)
        v == SortSeq([i \in DOMAIN nums |-> nums[i].num], LAMBDA a, b : a < b)
        n == Len(v)
        lo == ((n - 1) * num) \div den
        r == ((n - 1) * num) % den
    IN IF n = 0 THEN NaNum
       ELSE IF r = 0 THEN Frac(v[lo + 1], 1)
       ELSE FAdd(Frac(v[lo + 1], 1), FMul(Frac(r, den), Frac(v[lo + 2] - v[lo + 1], 1)))

\* app.py lines 268-272: q1 - 1.5 * iqr and q3 + 1.5 * iqr, with q1 and q3
\* the 5% and the 95% quantile
Fences(frame) ==
    LET x == Column(frame.rows, "convertedcompyearly")
        q1 == Quantile(x, 5, 100)
        q3 == Quantile(x, 95, 100)
        iqr == FSub(q3, q1)
    IN [lower |-> FSub(q1, FMul(Frac(3, 2), iqr)), upper |-> FAdd(q3, FMul(Frac(3, 2), iqr))]

\* a trimming that lets the records without compensation through
TrimOutliers_KeepMissing(frame) ==
    LET fences == Fences(frame)
        InFences(cell) ==
            \/ cell = NaNum
            \/ /\ IsNum(cell)
               /\ FLeq(fences.lower, Frac(cell.num, 1))
               /\ FLeq(Frac(cell.num, 1), fences.upper)
    IN Where(frame, [i \in DOMAIN frame.rows |->
                       InFences(frame.rows[i]["convertedcompyearly"])])

\* df_no_outliers = filtered_df[(comp >= q1 - 1.5 * iqr) & (comp <= q3 + 1.5 * iqr)]
TrimOutliers(frame) ==
    LET fences == Fences(frame)
        InFences(cell) ==
            /\ IsNum(cell)
            /\ FLeq(fences.lower, Frac(cell.num, 1))
            /\ FLeq(Frac(cell.num, 1), fences.upper)
    IN Where(frame, [i \in DOMAIN frame.rows |->
                       InFences(frame.rows[i]["convertedcompyearly"])])

\* filtered_df.groupby('country')['convertedcompyearly'].mean()
CountryCompensation(frame) ==
    LET keys == GroupKeysBy(frame, "country")
    IN [k \in DOMAIN keys |->
          [key |-> keys[k],
           value |-> FMean(Values(Column(GroupBy(frame, "country", keys[k]),
                                         "convertedcompyearly")))]]

\* app.py create_so_visualizations: the frame filtered_df names when the
\* function returns, the frame handed to the box plot and the per-country
\* means of the map; indexing an absent column raises KeyError
create_so_visualizations(stackoverflow_df, f) ==
    LET filtered_df == filter_data(stackoverflow_df, f, "stackoverflow")
        needed == {"age", "convertedcompyearly", "employment", "jobsat", "country",
                   "remotework"}
    IN IF ~IsFrame(filtered_df) THEN [filtered_df |-> filtered_df, charts |-> filtered_df]
       ELSE IF ~(needed \subseteq Range(filtered_df.columns))
       THEN [filtered_df |-> filtered_df, charts |-> Raised("KeyError")]
       ELSE [filtered_df |-> filtered_df,
             charts |-> [box_input |-> TrimOutliers(filtered_df),
                         country_comp |-> List(CountryCompensation(filtered_df))]]

\* pd.crosstab(remote_work, work_interfere, normalize='index'), melted and
\* times 100: for each interference level, for each remote-work status, the
\* share of the level among the records of that status; the records that
\* miss either value are not counted
Crosstab(frame) ==
    LET counted == SelectSeq(frame.rows,
                             LAMBDA r : r["remote_work"] # NaN /\ r["work_interfere"] # NaN)
        Present(order, col) ==
            SelectSeq(order, LAMBDA v : \E i \in DOMAIN counted : counted[i][col] = v)
        statuses == Present(<<"No", "Yes">>, "remote_work")
        levels == Present(<<"Never", "Often", "Sometimes">>, "work_interfere")
        Share(status, level) ==
            LET of_status == SelectSeq(counted, LAMBDA r : r["remote_work"] = status)
            IN FMul(Frac(CountIn(of_status, "work_interfere", {level}), Len(of_status)),
                    Frac(100, 1))
    IN [k \in 1..(Len(levels) * Len(statuses)) |->
          LET level == levels[((k - 1) \div Len(statuses)) + 1]
              status == statuses[((k - 1) % Len(statuses)) + 1]
          IN [remote_work |-> status, work_interfere |-> level,
              Percentage |-> Share(status, level)]]

\* pages/1_Mental_Health_Trends.py lines 247-264: the rates of 'Often' among
\* the remote and the non-remote records, their difference and its direction
RemoteWorkInsights(frame) ==
    LET remote_yes == Where(frame, [i \in DOMAIN frame.rows |->
                                      frame.rows[i]["remote_work"] = "Yes"])
        remote_no == Where(frame, [i \in DOMAIN frame.rows |->
                                     frame.rows[i]["remote_work"] = "No"])
        remote_often == SharePct(remote_yes, "work_interfere", {"Often"})
        non_remote_often == SharePct(remote_no, "work_interfere", {"Often"})
        diff == FSub(remote_often, non_remote_often)
    IN <<Statement("remote_rate", <<Fmt(remote_often, 1)>>),
         Statement("non_remote_rate", <<Fmt(non_remote_often, 1)>>),
         Statement("rate_difference",
                   <<Fmt(IF FLess(diff, Frac(0, 1)) THEN FSub(Frac(0, 1), diff) ELSE diff, 1)>>),
         Statement(IF FLess(remote_often, non_remote_often)
                   THEN "remote_lower" ELSE "remote_higher", <<>>)>>

\* pages/1_Mental_Health_Trends.py lines 226-266: the table of the stacked
\* bar chart is computed from mental_health_df, the insights below it from
\* filtered_mh_df; without the two columns the page shows a fixed table
RemoteWorkSection(mental_health_df, filtered_mh_df) ==
    IF HasCol(filtered_mh_df, "remote_work") /\ HasCol(filtered_mh_df, "work_interfere")
    THEN [stacked |-> List(Crosstab(mental_health_df)),
          insights |-> List(RemoteWorkInsights(filtered_mh_df))]
    ELSE [stacked |-> Name("synthetic"), insights |-> Name("fixed")]

(***************************************************************************)
(* The page stage: one run of a page script on the survey frame df with    *)
(* the sidebar selections filters.                                         *)
(***************************************************************************)
\* survey frames with every column the index needs, and one without
SurveyFrames ==
    {MkFrame(IndexColumnOrder, Range(required_cols), rows) :
        rows \in SeqsUpTo(ComponentRows, MaxRows)}
    \cup {MkFrame(IndexColumnOrder, {"Country", "treatment"}, rows) :
             rows \in SeqsUpTo(ComponentRows, 1)}

\* selections of the country: none, a country of the survey, a country
\* that no record has
CountrySelections == {<<>>, [country |-> "All"], [country |-> "Germany"], [country |-> "France"]}

\* Stack Overflow frames of the dashboard
DashboardColumns ==
    <<"country", "age", "convertedcompyearly", "employment", "jobsat", "remotework">>

DashboardRows ==
    [country : Cells("country"), age : {Num(24), NaNum},
     convertedcompyearly : Cells("convertedcompyearly"),
     employment : {"Employed"}, jobsat : {"Satisfied"}, remotework : {"Remote"}]

\* fifteen respondents: one far below the others, one without compensation
ScenarioCompensation ==
    [columns |-> DashboardColumns,
     rows |-> [i \in 1..15 |->
                 [country |-> IF i % 2 = 0 THEN "Germany" ELSE "France",
                  age |-> Num(24),
                  convertedcompyearly |-> IF i = 1 THEN Num(0)
                                          ELSE IF i = 2 THEN NaNum ELSE Num(6),
                  employment |-> "Employed", jobsat |-> "Satisfied",
                  remotework |-> "Remote"]]]

DashboardFrames ==
    {[columns |-> DashboardColumns, rows |-> rows] :
        rows \in SeqsUpTo(DashboardRows, MaxRecords)}
    \cup {ScenarioCompensation}

\* mental health frames of the trends page, and the selections of the
\* remote-work status
TrendsFrames ==
    FramesOver(<<"remote_work", "work_interfere">>, RowsOver2("remote_work", "work_interfere"))
    \cup FramesOver(<<"remote_work">>, RowsOver1("remote_work"))

RemoteSelections == {<<>>, [remote_work |-> "All"], [remote_work |-> "Yes"]}

DashboardSelections ==
    {Unconstrained(None), Unconstrained(List(<<>>)),
     [Unconstrained(None) EXCEPT !["countries"] = List(<<"Germany">>)],
     [Unconstrained(None) EXCEPT !["countries"] = List(<<"Sweden">>)]}

InitPages ==
    /\ phase = "pages"
    /\ IndexIdle
    /\ AgeIdle
    /\ TightenIdle
    /\ AggIdle
    /\ InsightIdle
    /\ filtered = NotCalled
    /\ refiltered = NotCalled
    /\ overview = NotCalled
    /\ charts = NotCalled
    /\ \/ /\ page \in {"global_perspective", "deep_dive"}
          /\ survey = "none"
          /\ df \in SurveyFrames
          /\ filters \in CountrySelections
       \/ /\ page = "trends"
          /\ survey = "none"
          /\ df \in TrendsFrames
          /\ filters \in RemoteSelections
       \/ /\ page = "app"
          /\ survey = "stackoverflow"
          /\ df \in DashboardFrames
          /\ filters \in DashboardSelections

\* pages/3_Global_Perspective.py lines 39-52
GlobalPerspective ==
    /\ phase = "pages"
    /\ page = "global_perspective"
    /\ charts = NotCalled
    /\ \E seed \in 0..(RngMod - 1) :
          LET filtered_mh_df == apply_filters(df, filters)
              country_stats == create_country_mental_health_index(filtered_mh_df, seed)
          IN /\ filtered' = filtered_mh_df
             /\ index' = country_stats
             /\ charts' = TopCountryMetrics(country_stats)
    /\ ncalls' = ncalls + 1
    /\ UNCHANGED <<phase, df, filters, survey, refiltered, ages, app_groups, binned, cut_groups,
                   tightenVars, aggVars, insightVars, page, overview>>

\* pages/4_Deep_Dive_Visuals.py lines 39-40 and 288-315
DeepDive ==
    /\ phase = "pages"
    /\ page = "deep_dive"
    /\ charts = NotCalled
    /\ \E seed \in 0..(RngMod - 1) :
          LET filtered_mh_df == apply_filters(df, filters)
              country_stats == create_country_mental_health_index(filtered_mh_df, seed)
          IN /\ filtered' = filtered_mh_df
             /\ index' = country_stats
             /\ charts' = RankingInsights(country_stats)
    /\ ncalls' = ncalls + 1
    /\ UNCHANGED <<phase, df, filters, survey, refiltered, ages, app_groups, binned, cut_groups,
                   tightenVars, aggVars, insightVars, page, overview>>

\* app.py create_dashboard_overview, data source Stack Overflow
DashboardOverview ==
    /\ phase = "pages"
    /\ page = "app"
    /\ overview = NotCalled
    /\ overview' = OverviewMetrics(filter_data(df, filters, "stackoverflow"))
    /\ UNCHANGED <<phase, df, ncalls, index, filters, survey, filtered, refiltered, ages,
                   app_groups, binned, cut_groups, tightenVars, aggVars, insightVars, page, charts>>

\* app.py main: create_so_visualizations follows the overview
SoVisualizations ==
    /\ phase = "pages"
    /\ page = "app"
    /\ overview # NotCalled
    /\ "error" \notin DOMAIN overview
    /\ charts = NotCalled
    /\ filtered' = create_so_visualizations(df, filters).filtered_df
    /\ charts' = create_so_visualizations(df, filters).charts
    /\ UNCHANGED <<phase, df, ncalls, index, filters, survey, refiltered, ages, app_groups,
                   binned, cut_groups, tightenVars, aggVars, insightVars, page, overview>>

\* pages/1_Mental_Health_Trends.py lines 44-45 and 226-266
TrendsRemoteWork ==
    /\ phase = "pages"
    /\ page = "trends"
    /\ charts = NotCalled
    /\ filtered' = apply_filters(df, filters)
    /\ charts' = RemoteWorkSection(df, apply_filters(df, filters))
    /\ UNCHANGED <<phase, df, ncalls, index, filters, survey, refiltered, ages, app_groups,
                   binned, cut_groups, tightenVars, aggVars, insightVars, page, overview>>

NextPages ==
    GlobalPerspective \/ DeepDive \/ DashboardOverview \/ SoVisualizations
       \/ TrendsRemoteWork

SpecPages == InitPages /\ [][NextPages]_vars

(***************************************************************************)
(* Properties of the page stage.                                           *)
(***************************************************************************)
\* the selections left no record of a frame that has every index column
EmptySelection ==
    /\ IsFrame(filtered)
    /\ filtered.rows = <<>>
    /\ HasAll(filtered, required_cols)

\* C23: when the selections leave no record, the index has no row and the
\* consumers of it (the top-country metric, the ranking insights) and the
\* overview metrics display an output: none of them raises.
C23_EmptyIsNeverFatal ==
    /\ (phase = "pages" /\ charts # NotCalled /\ EmptySelection) =>
          /\ index.rows = <<>>
          /\ charts # Raised("IndexError")
    /\ (phase = "pages" /\ overview # NotCalled) => "error" \notin DOMAIN overview

\* C25: what a page displays is computed from the filtered frame: the
\* table of remote work against work interference of the trends page is
\* the cross tabulation of the filtered frame, the frame its insights are
\* computed from, and the index of the two index pages is the index of
\* the filtered frame.
C25_AggregatesOfFilteredFrame ==
    /\ (phase = "pages" /\ page = "trends" /\ charts # NotCalled
        /\ HasCol(df, "remote_work") /\ HasCol(df, "work_interfere")) =>
          /\ charts.insights = List(RemoteWorkInsights(filtered))
          /\ charts.stacked = List(Crosstab(filtered))
    /\ (phase = "pages" /\ page \in {"global_perspective", "deep_dive"}
        /\ charts # NotCalled /\ HasAll(df, required_cols)) =>
          \E seed \in 0..(RngMod - 1) : index = ComputedIndex(filtered, seed)

\* the dashboard has drawn the compensation box plot
BoxPlotDrawn ==
    /\ phase = "pages"
    /\ page = "app"
    /\ charts # NotCalled
    /\ "box_input" \in DOMAIN charts

Compensation(rows) == Column(rows, "convertedcompyearly")

\* C24: only the frame of the box plot is trimmed.  The average of the
\* overview and the per-country means are those of the untrimmed filtered
\* frame, the filtered frame is what the filter returned, and the frame of
\* the box plot holds exactly the records of the filtered frame whose
\* compensation is within [lower, upper], in their order; a record without
\* compensation is not among them.
C24_TrimmingOnlyForBoxPlot ==
    BoxPlotDrawn =>
        /\ overview.avg_comp = Fmt(FMean(Values(Compensation(filtered.rows))), 2)
        /\ \A k \in DOMAIN charts.country_comp.list :
              charts.country_comp.list[k].value =
                 FMean(Values(Compensation(
                    SelectSeq(filtered.rows,
                              LAMBDA r : r["country"] = charts.country_comp.list[k].key))))
        /\ filtered = filter_data(df, filters, "stackoverflow")
        /\ charts.box_input.columns = filtered.columns
        /\ charts.box_input.rows =
              SelectSeq(filtered.rows,
                        LAMBDA r : /\ IsNum(r["convertedcompyearly"])
                                   /\ FLeq(Fences(filtered).lower,
                                           Frac(r["convertedcompyearly"].num, 1))
                                   /\ FLeq(Frac(r["convertedcompyearly"].num, 1),
                                           Fences(filtered).upper))

\* the box plot got fewer records with compensation than the filtered
\* frame has: the trimming dropped an outlier, and the average of the
\* overview still counts it
C24_Witness ==
    /\ BoxPlotDrawn
    /\ Len(Values(Compensation(charts.box_input.rows)))
          < Len(Values(Compensation(filtered.rows)))
    /\ overview.avg_comp # Fmt(FMean(Values(Compensation(charts.box_input.rows))), 2)

(***************************************************************************)
(* Properties of the bucketing stage.                                      *)
(***************************************************************************)
\* C8: every age gets exactly one bucket: one of the five ordered buckets
\* when it is a number (negative, or 100 and above, too), the explicit
\* Unknown bucket when it is missing or not a number; nothing raises; ages
\* 20, 30, 40, 50, 60 get the five buckets in order.  For get_age_group and
\* for Utils.bin_age_groups.
C8_EveryAgeBucketed ==
    /\ (phase = "age" /\ app_groups # NotCalled) =>
          /\ \A i \in DOMAIN ages :
                LET o == app_groups.outcomes[i]
                IN /\ "label" \in DOMAIN o
                   /\ o.label \in Range(age_groups) \cup {"Unknown"}
                   /\ o.label = "Unknown" <=> ~IsNum(ages[i])
          /\ ages = ScenarioAges =>
                [i \in DOMAIN ages |-> app_groups.outcomes[i].label] = age_groups
    /\ (phase = "age" /\ binned # NotCalled) =>
          /\ IsFrame(binned)
          /\ \A i \in DOMAIN ages :
                /\ binned.rows[i]["age_group"] \in Range(default_labels) \cup {"Unknown"}
                /\ binned.rows[i]["age_group"] = "Unknown" <=> ~IsNum(ages[i])
          /\ ages = ScenarioAges =>
                [i \in DOMAIN ages |-> binned.rows[i]["age_group"]] = default_labels

\* the position of a label in an ordered list of buckets, 0 when it is in none
BucketOf(label, buckets) ==
    IF \E k \in DOMAIN buckets : buckets[k] = label
    THEN CHOOSE k \in DOMAIN buckets : buckets[k] = label
    ELSE 0

\* C28: for every integer age from 18 to 99 (the boundary ages 18, 25, 35,
\* 45 and 55 among them), get_age_group, Utils.bin_age_groups with the
\* default bins and the pd.cut of the Deep Dive page put the age at the same
\* position of the ordered list of five buckets.
C28_BucketingsAgree ==
    (/\ phase = "age"
     /\ app_groups # NotCalled /\ binned # NotCalled /\ cut_groups # NotCalled
     /\ \A i \in DOMAIN ages : IsNum(ages[i]) /\ ages[i].num \in 18..99) =>
        \A i \in DOMAIN ages :
           /\ BucketOf(app_groups.outcomes[i].label, age_groups)
                 = BucketOf(binned.rows[i]["age_group"], default_labels)
           /\ BucketOf(binned.rows[i]["age_group"], default_labels)
                 = BucketOf(cut_groups.labels[i], deep_dive_labels)

====
